---- MODULE Spec2Model ----
(***************************************************************************)
(* A model of sanctifier-core's Analyzer (tooling/sanctifier-core/src):    *)
(* the facade, its panic guard and the detectors behind it.  A source      *)
(* file is modelled by the syntax tree syn::parse_str gives for it (or by  *)
(* the fact that it does not parse); each detector is the function of the  *)
(* tree that its Rust code computes, written statement by statement.  The  *)
(* pure arithmetic of the example contracts (contracts/kani-poc,           *)
(* contracts/amm-pool) and the init command of sanctifier-cli are modelled *)
(* at the end.                                                             *)
(***************************************************************************)
EXTENDS Integers, Sequences, FiniteSets, TLC

VARIABLES
    config,   \* Analyzer.config: ledger_limit, approaching_threshold, strict_mode
    source,   \* the source text handed to the detectors, as its parse result
    calls,    \* the detector calls made so far on this Analyzer, oldest first
    runs,     \* the detector runs in flight on this Analyzer, each with its own locals
    pool,     \* the reserves of the AMM pool the swaps are applied to
    file      \* .sanctify.toml in the working directory of the init command

vars == <<config, source, calls, runs, pool, file>>

(***************************************************************************)
(* Bounds of the model.                                                    *)
(***************************************************************************)
\* How many syntactic constructs are wrapped around an expression of a generated body.
MaxDepth == 1
\* How many functions a generated multi-function file holds.
MaxFns == 2
\* How many detector calls are made on one Analyzer.
MaxCalls == 2

(***************************************************************************)
(* Sequence helpers.                                                       *)
(***************************************************************************)
Range(s) == {s[i] : i \in 1..Len(s)}

RECURSIVE SeqsUpTo(_, _)
\* All sequences over S of length at most n.
SeqsUpTo(S, n) ==
    IF n = 0 THEN {<<>>}
    ELSE LET shorter == SeqsUpTo(S, n - 1)
         IN  shorter \cup {Append(s, x) : s \in {t \in shorter : Len(t) = n - 1}, x \in S}

RECURSIVE Flatten(_)
Flatten(ss) == IF ss = <<>> THEN <<>> ELSE Head(ss) \o Flatten(Tail(ss))

(***************************************************************************)
(* The syntax tree (syn 2): expressions, statements, items.  Every node    *)
(* is a record with its kind in field k; the other fields carry syn's      *)
(* names.  A list of children is a sequence, an optional child a sequence  *)
(* of length 0 or 1.                                                       *)
(***************************************************************************)
Path(segs) == [k |-> "Path", segs |-> segs]
Ident(name) == Path(<<name>>)
LitStr(v) == [k |-> "Lit", lit |-> "Str", value |-> v]
LitInt(v) == [k |-> "Lit", lit |-> "Int", value |-> v]
Call(func, args) == [k |-> "Call", func |-> func, args |-> args]
MethodCall(receiver, method, args) ==
    [k |-> "MethodCall", receiver |-> receiver, method |-> method, args |-> args]
\* A macro invocation: its path and its unparsed tokens.
ExprMacro(path, tokens) == [k |-> "Macro", path |-> path, tokens |-> tokens]
\* A token of a macro's token stream: a string literal, an identifier, punctuation.
TokStr(text) == [t |-> "Str", text |-> text]
TokIdent(text) == [t |-> "Ident", text |-> text]
TokPunct(text) == [t |-> "Punct", text |-> text]
Block(stmts) == [k |-> "Block", stmts |-> stmts]
If(cond, then_branch, else_branch) ==
    [k |-> "If", cond |-> cond, then_branch |-> then_branch, else_branch |-> else_branch]
Match(expr, arms) == [k |-> "Match", expr |-> expr, arms |-> arms]
Binary(op, left, right) == [k |-> "Binary", op |-> op, left |-> left, right |-> right]
ForLoop(expr, body) == [k |-> "ForLoop", expr |-> expr, body |-> body]
While(cond, body) == [k |-> "While", cond |-> cond, body |-> body]
Loop(body) == [k |-> "Loop", body |-> body]
Closure(body) == [k |-> "Closure", body |-> body]
Reference(expr) == [k |-> "Reference", expr |-> expr]
Try(expr) == [k |-> "Try", expr |-> expr]

\* The node e, whose first token stands on the given source line.
At(e, line) == [x \in DOMAIN e \cup {"line"} |-> IF x = "line" THEN line ELSE e[x]]

\* A literal or token whose text runs over n line breaks (a multi-line string).
WithBreaks(e, n) == [x \in DOMAIN e \cup {"breaks"} |-> IF x = "breaks" THEN n ELSE e[x]]
Breaks(e) == IF "breaks" \in DOMAIN e THEN e.breaks ELSE 0

RECURSIVE StartLine(_)
\* node.span().start().line: the line of the node's first token (0 when the
\* tree carries no position).
StartLine(e) ==
    IF "line" \in DOMAIN e THEN e.line
    ELSE CASE e.k = "Binary" -> StartLine(e.left)
           [] e.k = "MethodCall" -> StartLine(e.receiver)
           [] e.k = "Call" -> StartLine(e.func)
           [] e.k = "Try" -> StartLine(e.expr)
           [] OTHER -> 0

StmtExpr(expr) == [k |-> "Expr", expr |-> expr]
\* let <pat> = <init>;  typed is <<ty>> for `let x: ty`, init is <<e>> when present.
StmtLocal(typed, init) == [k |-> "Local", typed |-> typed, init |-> init]
StmtMacro(path, tokens) == [k |-> "Macro", path |-> path, tokens |-> tokens]
StmtItem(item) == [k |-> "Item", item |-> item]

\* vis is "pub" (syn::Visibility::Public) or "inherited".
ItemFn(name, vis, inputs, body) ==
    [k |-> "Fn", name |-> name, vis |-> vis, inputs |-> inputs, body |-> body]
ImplItemFn(name, vis, inputs, body) ==
    [k |-> "ImplFn", name |-> name, vis |-> vis, inputs |-> inputs, body |-> body]
ItemImpl(items) == [k |-> "Impl", items |-> items]
\* const NAME: ty = expr;  starting on the given line.
ItemUse == [k |-> "Use"]
ItemExternCrate == [k |-> "ExternCrate"]
ItemConst(name, expr, line) == [k |-> "Const", name |-> name, expr |-> expr, line |-> line]

\* Types (syn::Type).  A path type carries the generic arguments of its last
\* segment: <<>> when it has none, else the list of arguments, each a type
\* ([k |-> "Type", ty |-> ...]) or something else (a lifetime, a const).
TypePath(segs, args) == [k |-> "Path", segs |-> segs, args |-> args]
TypeNamed(name) == TypePath(<<name>>, <<>>)
TypeArg(ty) == [k |-> "Type", ty |-> ty]
LifetimeArg == [k |-> "Lifetime"]
\* [elem; len], len being an expression.
TypeArray(elem, len) == [k |-> "Array", elem |-> elem, len |-> len]
\* Any other form: a reference, a tuple, ...
TypeOther == [k |-> "Other"]

\* An attribute: its meta form ("Path", "List" or "NameValue") and its path.
Attr(meta, path) == [meta |-> meta, path |-> path]
\* fields is "Named", "Unnamed" or "Unit"; tys are the fields' types in order.
ItemStruct(attrs, name, fields, tys) ==
    [k |-> "Struct", attrs |-> attrs, name |-> name, fields |-> fields, tys |-> tys]
Variant(fields, tys) == [fields |-> fields, tys |-> tys]
ItemEnum(attrs, name, variants) ==
    [k |-> "Enum", attrs |-> attrs, name |-> name, variants |-> variants]

\* parse_str::<File>(source): Ok(file) with the file's items, or Err.
ParsedFile(items) == [parsed |-> TRUE, items |-> items]
Unparsable == [parsed |-> FALSE, items |-> <<>>]

(***************************************************************************)
(* Token rendering (quote! / to_string).  The rendering of a tree is a     *)
(* token stream; `contains` looks for a keyword inside its text, and the   *)
(* tokens being separated, a keyword is found iff one word of the stream   *)
(* holds it.  Words(e) is the set of words (identifiers, literal texts) of *)
(* e's rendering.                                                          *)
(***************************************************************************)
RECURSIVE Words(_)
RECURSIVE WordsOfStmts(_)
WordsOfAll(es) == UNION {Words(es[i]) : i \in 1..Len(es)}
Words(e) ==
    CASE e.k = "Path" -> Range(e.segs)
      [] e.k = "Lit" -> IF e.lit = "Str" THEN {e.value} ELSE {}
      [] e.k = "Call" -> Words(e.func) \cup WordsOfAll(e.args)
      [] e.k = "MethodCall" -> Words(e.receiver) \cup {e.method} \cup WordsOfAll(e.args)
      [] e.k = "Macro" -> Range(e.path) \cup {tok.text : tok \in Range(e.tokens)}
      [] e.k = "Block" -> WordsOfStmts(e.stmts)
      [] e.k = "If" -> Words(e.cond) \cup WordsOfStmts(e.then_branch) \cup WordsOfAll(e.else_branch)
      [] e.k = "Match" -> Words(e.expr) \cup WordsOfAll(e.arms)
      [] e.k = "Binary" -> Words(e.left) \cup Words(e.right)
      [] e.k = "ForLoop" -> Words(e.expr) \cup WordsOfStmts(e.body)
      [] e.k = "While" -> Words(e.cond) \cup WordsOfStmts(e.body)
      [] e.k = "Loop" -> WordsOfStmts(e.body)
      [] e.k = "Closure" -> Words(e.body)
      [] e.k \in {"Reference", "Try"} -> Words(e.expr)
      [] OTHER -> {}
WordsOfStmts(stmts) ==
    UNION {LET s == stmts[i]
           IN  CASE s.k = "Expr" -> Words(s.expr)
                 [] s.k = "Local" -> WordsOfAll(s.init)
                 [] s.k = "Macro" -> Range(s.path) \cup {tok.text : tok \in Range(s.tokens)}
                 [] OTHER -> {}
           : i \in 1..Len(stmts)}

\* str::contains on one word, for the words and keywords of the model's vocabulary.
WordContains(word, kw) ==
    \/ word = kw
    \/ word = "storage_key" /\ kw = "storage"
    \/ word = "instance_id" /\ kw = "instance"

\* text.contains(kw), the text being the rendering of a token stream with these words.
TextContains(words, kw) == \E w \in words : WordContains(w, kw)

(***************************************************************************)
(* The panic guard.  The closure handed to with_panic_guard either returns *)
(* a value or unwinds; an outcome records which.                           *)
(***************************************************************************)
Returned(value) == [panicked |-> FALSE, value |-> value]
Panicked == [panicked |-> TRUE, value |-> <<>>]

\* A guard that lets the panic through: the caller sees it.
with_panic_guard_rethrow(outcome) ==
    IF outcome.panicked THEN <<"panic">> ELSE outcome.value

\* with_panic_guard(f): catch_unwind(f), Ok(res) => res, Err(_) => R::default().
\* Every guarded detector returns a Vec, whose default is the empty list.
with_panic_guard(outcome) ==
    IF outcome.panicked THEN <<>> ELSE outcome.value

\* The detector body `impl_result` run inside the guard; `fault` says that the
\* traversal panics before it returns.
Guarded(fault, impl_result) ==
    with_panic_guard(IF fault THEN Panicked ELSE Returned(impl_result))

(***************************************************************************)
(* Authorization-gap detector.                                             *)
(***************************************************************************)
AuthNames == {"require_auth", "require_auth_for_args"}
MutatingMethods == {"set", "update", "remove"}
StorageKeywords == {"storage", "persistent", "temporary", "instance"}

\* syn::Path::is_ident: the path is that single identifier.
is_ident(path, name) == path = <<name>>

\* quote::quote!(#m.receiver).to_string(): `#m` interpolates the method call m
\* itself, and `.receiver` follows as two literal tokens.
receiver_str(m) == Words(m) \cup {"receiver"}

RECURSIVE check_fn_body(_, _)
RECURSIVE check_expr(_, _)
RECURSIVE check_exprs(_, _)

\* for arg in args { self.check_expr(arg, has_mutation, has_auth) }
check_exprs(es, acc) ==
    IF es = <<>> THEN acc ELSE check_exprs(Tail(es), check_expr(Head(es), acc))

\* acc is the pair of flags (has_mutation, has_auth) the traversal threads through.
check_expr(expr, acc) ==
    CASE expr.k = "Call" ->
           LET a1 == IF /\ expr.func.k = "Path"
                        /\ expr.func.segs # <<>>
                        /\ expr.func.segs[Len(expr.func.segs)] \in AuthNames
                     THEN [acc EXCEPT !.has_auth = TRUE]
                     ELSE acc
           IN  check_exprs(expr.args, a1)
      [] expr.k = "MethodCall" ->
           LET a1 == IF /\ expr.method \in MutatingMethods
                        /\ \E kw \in StorageKeywords : TextContains(receiver_str(expr), kw)
                     THEN [acc EXCEPT !.has_mutation = TRUE]
                     ELSE acc
               a2 == IF expr.method \in AuthNames
                     THEN [a1 EXCEPT !.has_auth = TRUE]
                     ELSE a1
               a3 == check_expr(expr.receiver, a2)
           IN  check_exprs(expr.args, a3)
      [] expr.k = "Block" -> check_fn_body(expr.stmts, acc)
      [] expr.k = "If" ->
           LET a1 == check_expr(expr.cond, acc)
               a2 == check_fn_body(expr.then_branch, a1)
           IN  check_exprs(expr.else_branch, a2)
      [] expr.k = "Match" ->
           check_exprs(expr.arms, check_expr(expr.expr, acc))
      [] OTHER -> acc

check_fn_body(stmts, acc) ==
    IF stmts = <<>> THEN acc
    ELSE LET stmt == Head(stmts)
             a1 == CASE stmt.k = "Expr" -> check_expr(stmt.expr, acc)
                     [] stmt.k = "Local" -> check_exprs(stmt.init, acc)
                     [] stmt.k = "Macro" ->
                          IF \E n \in AuthNames : is_ident(stmt.path, n)
                          THEN [acc EXCEPT !.has_auth = TRUE]
                          ELSE acc
                     [] OTHER -> acc
         IN  check_fn_body(Tail(stmts), a1)

RECURSIVE auth_gaps_of_fns(_)
\* The inner loop of scan_auth_gaps_impl over one impl block's items.
auth_gaps_of_fns(impl_items) ==
    IF impl_items = <<>> THEN <<>>
    ELSE LET f == Head(impl_items)
             flags == check_fn_body(f.body, [has_mutation |-> FALSE, has_auth |-> FALSE])
             here == IF /\ f.k = "ImplFn"
                        /\ f.vis = "pub"
                        /\ flags.has_mutation
                        /\ ~flags.has_auth
                     THEN <<f.name>>
                     ELSE <<>>
         IN  here \o auth_gaps_of_fns(Tail(impl_items))

RECURSIVE auth_gaps_of_items(_)
auth_gaps_of_items(items) ==
    IF items = <<>> THEN <<>>
    ELSE LET item == Head(items)
             here == IF item.k = "Impl" THEN auth_gaps_of_fns(item.items) ELSE <<>>
         IN  here \o auth_gaps_of_items(Tail(items))

scan_auth_gaps_impl(src) ==
    IF ~src.parsed THEN <<>> ELSE auth_gaps_of_items(src.items)

scan_auth_gaps(src, fault) == Guarded(fault, scan_auth_gaps_impl(src))

(***************************************************************************)
(* Panic detector (scan_panics).                                           *)
(***************************************************************************)
PanicIssue(fn_name, issue_type) ==
    [function_name |-> fn_name, issue_type |-> issue_type, location |-> fn_name]

\* A push that keeps one issue per function and kind.
push_issue_once(issues, issue) ==
    IF issue \in Range(issues) THEN issues ELSE Append(issues, issue)

\* issues.push(PanicIssue { .. })
push_issue(issues, issue) == Append(issues, issue)

RECURSIVE check_fn_panics(_, _, _)
RECURSIVE check_expr_panics(_, _, _)
RECURSIVE check_exprs_panics(_, _, _)

\* `for arg in args { self.check_expr_panics(arg, fn_name, issues) }`
check_exprs_panics(es, fn_name, issues) ==
    IF es = <<>> THEN issues
    ELSE check_exprs_panics(Tail(es), fn_name, check_expr_panics(Head(es), fn_name, issues))

\* check_expr_panics: the issues after the expression, from the issues before it.
check_expr_panics(expr, fn_name, issues) ==
    CASE expr.k = "Macro" ->
           IF is_ident(expr.path, "panic")
           THEN push_issue(issues, PanicIssue(fn_name, "panic!"))
           ELSE issues
      [] expr.k = "MethodCall" ->
           LET pushed == IF expr.method \in {"unwrap", "expect"}
                         THEN push_issue(issues, PanicIssue(fn_name, expr.method))
                         ELSE issues
           IN  check_exprs_panics(expr.args, fn_name,
                   check_expr_panics(expr.receiver, fn_name, pushed))
      [] expr.k = "Call" -> check_exprs_panics(expr.args, fn_name, issues)
      [] expr.k = "Block" -> check_fn_panics(expr.stmts, fn_name, issues)
      [] expr.k = "If" ->
           check_exprs_panics(expr.else_branch, fn_name,
               check_fn_panics(expr.then_branch, fn_name,
                   check_expr_panics(expr.cond, fn_name, issues)))
      [] expr.k = "Match" ->
           check_exprs_panics(expr.arms, fn_name, check_expr_panics(expr.expr, fn_name, issues))
      [] OTHER -> issues

\* check_fn_panics: the statements of a block, in order.
check_fn_panics(stmts, fn_name, issues) ==
    IF stmts = <<>> THEN issues
    ELSE LET stmt == Head(stmts)
             after == CASE stmt.k = "Expr" -> check_expr_panics(stmt.expr, fn_name, issues)
                        [] stmt.k = "Local" -> check_exprs_panics(stmt.init, fn_name, issues)
                        [] stmt.k = "Macro" ->
                             IF is_ident(stmt.path, "panic")
                             THEN push_issue(issues, PanicIssue(fn_name, "panic!"))
                             ELSE issues
                        [] OTHER -> issues
         IN  check_fn_panics(Tail(stmts), fn_name, after)

RECURSIVE panics_of_fns(_, _)
\* `for impl_item in &i.items`: every function of the impl block, whatever its
\* visibility.
panics_of_fns(fns, issues) ==
    IF fns = <<>> THEN issues
    ELSE LET f == Head(fns)
         IN  panics_of_fns(Tail(fns),
                 IF f.k = "ImplFn" THEN check_fn_panics(f.body, f.name, issues) ELSE issues)

RECURSIVE panics_of_items(_, _)
\* `for item in &file.items`: only impl blocks are looked into.
panics_of_items(items, issues) ==
    IF items = <<>> THEN issues
    ELSE LET item == Head(items)
         IN  panics_of_items(Tail(items),
                 IF item.k = "Impl" THEN panics_of_fns(item.items, issues) ELSE issues)

scan_panics_impl(src) ==
    IF ~src.parsed THEN <<>> ELSE panics_of_items(src.items, <<>>)

scan_panics(src, fault) == Guarded(fault, scan_panics_impl(src))

(***************************************************************************)
(* Arithmetic-overflow detector (ArithVisitor).                            *)
(***************************************************************************)
ArithOps == {"+", "-", "*", "+=", "-=", "*="}

\* A classification that takes every binary operator for an overflow risk.
classify_op_every(op) == <<op, "Use checked arithmetic">>

\* ArithVisitor::classify_op: <<operator, suggestion>>, or <<>> for None.  The
\* suggestion texts are the code's, without their backquotes and with ' for \".
classify_op(op) ==
    CASE op = "+" ->
           <<"+", "Use .checked_add(rhs) or .saturating_add(rhs) to handle overflow">>
      [] op = "-" ->
           <<"-", "Use .checked_sub(rhs) or .saturating_sub(rhs) to handle underflow">>
      [] op = "*" ->
           <<"*", "Use .checked_mul(rhs) or .saturating_mul(rhs) to handle overflow">>
      [] op = "+=" ->
           <<"+=", "Replace a += b with a = a.checked_add(b).expect('overflow')">>
      [] op = "-=" ->
           <<"-=", "Replace a -= b with a = a.checked_sub(b).expect('underflow')">>
      [] op = "*=" ->
           <<"*=", "Replace a *= b with a = a.checked_mul(b).expect('overflow')">>
      [] OTHER -> <<>>

is_string_literal(expr) == expr.k = "Lit" /\ expr.lit = "Str"

\* ArithVisitor { issues: Vec::new(), current_fn: None, seen: HashSet::new() }
ArithVisitorNew == [issues |-> <<>>, current_fn |-> <<>>, seen |-> {}]

\* The part of visit_expr_binary before it descends.
arith_on_binary(node, v) ==
    IF v.current_fn = <<>> THEN v
    ELSE LET fn_name == v.current_fn[1]
             cls == classify_op(node.op)
         IN  IF cls = <<>> THEN v
             ELSE IF is_string_literal(node.left) \/ is_string_literal(node.right) THEN v
             ELSE LET key == <<fn_name, cls[1]>>
                  IN  IF key \in v.seen THEN v
                      ELSE [v EXCEPT
                              !.seen = @ \cup {key},
                              !.issues = Append(@,
                                  [function_name |-> fn_name,
                                   operation |-> cls[1],
                                   suggestion |-> cls[2],
                                   \* format!("{}:{}", fn_name, line)
                                   location |-> <<fn_name, ":", StartLine(node.left)>>])]

RECURSIVE arith_visit_expr(_, _)
RECURSIVE arith_visit_exprs(_, _)
RECURSIVE arith_visit_stmts(_, _)
RECURSIVE arith_visit_items(_, _)

arith_visit_exprs(es, v) ==
    IF es = <<>> THEN v ELSE arith_visit_exprs(Tail(es), arith_visit_expr(Head(es), v))

\* syn's visit_expr with visit_expr_binary overridden: the other kinds only
\* descend into their children, in field order.
arith_visit_expr(e, v) ==
    CASE e.k = "Binary" ->
           arith_visit_expr(e.right, arith_visit_expr(e.left, arith_on_binary(e, v)))
      [] e.k = "Call" -> arith_visit_exprs(e.args, arith_visit_expr(e.func, v))
      [] e.k = "MethodCall" -> arith_visit_exprs(e.args, arith_visit_expr(e.receiver, v))
      [] e.k = "Block" -> arith_visit_stmts(e.stmts, v)
      [] e.k = "If" ->
           arith_visit_exprs(e.else_branch,
               arith_visit_stmts(e.then_branch, arith_visit_expr(e.cond, v)))
      [] e.k = "Match" -> arith_visit_exprs(e.arms, arith_visit_expr(e.expr, v))
      [] e.k = "ForLoop" -> arith_visit_stmts(e.body, arith_visit_expr(e.expr, v))
      [] e.k = "While" -> arith_visit_stmts(e.body, arith_visit_expr(e.cond, v))
      [] e.k = "Loop" -> arith_visit_stmts(e.body, v)
      [] e.k = "Closure" -> arith_visit_expr(e.body, v)
      [] e.k \in {"Reference", "Try"} -> arith_visit_expr(e.expr, v)
      \* a macro's tokens are not parsed: nothing below it is visited
      [] OTHER -> v

arith_visit_stmts(stmts, v) ==
    IF stmts = <<>> THEN v
    ELSE LET stmt == Head(stmts)
             v1 == CASE stmt.k = "Expr" -> arith_visit_expr(stmt.expr, v)
                     [] stmt.k = "Local" -> arith_visit_exprs(stmt.init, v)
                     [] stmt.k = "Item" -> arith_visit_items(<<stmt.item>>, v)
                     [] OTHER -> v
         IN  arith_visit_stmts(Tail(stmts), v1)

\* A visit of a function that leaves the function's name in the context.
arith_visit_fn_no_restore(node, v) ==
    arith_visit_stmts(node.body, [v EXCEPT !.current_fn = <<node.name>>])

\* visit_item_fn / visit_impl_item_fn: prev = current_fn.take(); current_fn =
\* Some(name); descend; current_fn = prev.
arith_visit_fn(node, v) ==
    LET prev == v.current_fn
        inside == arith_visit_stmts(node.body, [v EXCEPT !.current_fn = <<node.name>>])
    IN  [inside EXCEPT !.current_fn = prev]

arith_visit_items(items, v) ==
    IF items = <<>> THEN v
    ELSE LET item == Head(items)
             v1 == CASE item.k \in {"Fn", "ImplFn"} -> arith_visit_fn(item, v)
                     [] item.k = "Impl" -> arith_visit_items(item.items, v)
                     [] item.k = "Const" -> arith_visit_expr(item.expr, v)
                     [] OTHER -> v
         IN  arith_visit_items(Tail(items), v1)

scan_arithmetic_overflow_impl(src) ==
    IF ~src.parsed THEN <<>>
    ELSE arith_visit_items(src.items, ArithVisitorNew).issues

scan_arithmetic_overflow(src, fault) == Guarded(fault, scan_arithmetic_overflow_impl(src))


(***************************************************************************)
(* Ledger-size estimator.                                                  *)
(***************************************************************************)
\* has_contracttype: some attribute is a bare path that is, or has a segment, contracttype.
has_contracttype(attrs) ==
    \E i \in 1..Len(attrs) :
        /\ attrs[i].meta = "Path"
        /\ \/ is_ident(attrs[i].path, "contracttype")
           \/ "contracttype" \in Range(attrs[i].path)

\* A classification whose approaching band starts strictly above limit * threshold.
classify_size_above(size, limit, approaching, strict, strict_threshold) ==
    IF size >= limit THEN <<"ExceedsLimit">>
    ELSE IF strict /\ size >= strict_threshold THEN <<"ExceedsLimit">>
    ELSE IF 100 * size > limit * approaching THEN <<"ApproachingLimit">>
    ELSE <<>>

\* A size table that knows no generic type: Vec and Map cost 128, every other
\* name its own cost, every other form 8.
estimate_type_size_flat(ty) ==
    IF ty.k # "Path" THEN 8
    ELSE LET name == ty.segs[Len(ty.segs)]
         IN  CASE name \in {"u32", "i32", "bool"} -> 4
               [] name \in {"u64", "i64"} -> 8
               [] name \in {"u128", "i128", "I128", "U128"} -> 16
               [] name = "Address" -> 32
               [] name \in {"Bytes", "BytesN", "String", "Symbol"} -> 64
               [] name \in {"Vec", "Map"} -> 128
               [] OTHER -> 32

\* classify_size.  `approaching` is the f64 threshold, kept as a percentage, and
\* size as f64 >= limit as f64 * approaching  becomes  100 * size >= limit * percent.
\* The two agree for the limits and thresholds of LedgerConfigs, whose f64
\* products (0.0, 25.0, 40.0, 32.0, 51.2.., 50.0, 80.0) stand to every integer size as
\* the exact products do; they need not agree elsewhere (50 * 0.28 is
\* 14.000000000000002 in f64).  The result is <<level>>, or <<>> for None.
classify_size(size, limit, approaching, strict, strict_threshold) ==
    IF size >= limit THEN <<"ExceedsLimit">>
    ELSE IF strict /\ size >= strict_threshold THEN <<"ExceedsLimit">>
    ELSE IF 100 * size >= limit * approaching THEN <<"ApproachingLimit">>
    ELSE <<>>

RECURSIVE estimate_type_size(_)
RECURSIVE SumSizes(_)
SumSizes(tys) == IF tys = <<>> THEN 0 ELSE estimate_type_size(Head(tys)) + SumSizes(Tail(tys))

\* The generic arguments that are types, in order (filter_map over args.args).
TypeArgsOf(args) ==
    LET kept == SelectSeq(args, LAMBDA a : a.k = "Type")
    IN  [i \in 1..Len(kept) |-> kept[i].ty]

estimate_type_size(ty) ==
    CASE ty.k = "Path" ->
           IF ty.segs = <<>> THEN 8
           ELSE LET name == ty.segs[Len(ty.segs)]
                IN  CASE name \in {"u32", "i32", "bool"} -> 4
                      [] name \in {"u64", "i64"} -> 8
                      [] name \in {"u128", "i128", "I128", "U128"} -> 16
                      [] name = "Address" -> 32
                      [] name \in {"Bytes", "BytesN", "String", "Symbol"} -> 64
                      [] name = "Vec" ->
                           IF ty.args # <<>> /\ ty.args[1].k = "Type"
                           THEN 8 + estimate_type_size(ty.args[1].ty)
                           ELSE 128
                      [] name = "Map" ->
                           LET inner == SumSizes(TypeArgsOf(ty.args))
                           IN  IF ty.args # <<>> /\ inner > 0 THEN 16 + inner * 2 ELSE 128
                      [] name = "Option" ->
                           IF ty.args # <<>> /\ ty.args[1].k = "Type"
                           THEN 1 + estimate_type_size(ty.args[1].ty)
                           ELSE 32
                      [] OTHER -> 32
      [] ty.k = "Array" ->
           IF ty.len.k = "Lit" /\ ty.len.lit = "Int"
           THEN ty.len.value * estimate_type_size(ty.elem)
           ELSE 64
      [] OTHER -> 8

\* Named and unnamed fields are summed alike; a unit struct has none.
estimate_struct_size(s) ==
    IF s.fields = "Unit" THEN 0 ELSE SumSizes(s.tys)

RECURSIVE max_variant_size_sum(_, _)
\* An estimate that adds the variants up instead of keeping the largest.
max_variant_size_sum(variants, max_variant) ==
    IF variants = <<>> THEN max_variant
    ELSE LET v == Head(variants)
             variant_size == IF v.fields = "Unit" THEN 0 ELSE SumSizes(v.tys)
         IN  max_variant_size_sum(Tail(variants), max_variant + variant_size)

RECURSIVE max_variant_size(_, _)
max_variant_size(variants, max_variant) ==
    IF variants = <<>> THEN max_variant
    ELSE LET v == Head(variants)
             variant_size == IF v.fields = "Unit" THEN 0 ELSE SumSizes(v.tys)
         IN  max_variant_size(Tail(variants),
                 IF variant_size > max_variant THEN variant_size ELSE max_variant)

DISCRIMINANT_SIZE == 4

estimate_enum_size(e) == DISCRIMINANT_SIZE + max_variant_size(e.variants, 0)

\* The body of one match arm of analyze_ledger_size_impl.  Each arm holds two
\* versions of the `if let Some(level) = classify_size(..)` line; the one that
\* guards the push is the second, which reads the bindings made right above it:
\* limit = ledger_limit, approaching = approaching_threshold, strict =
\* strict_mode, strict_threshold = limit.  (The first passes a usize where the
\* function takes the f64 threshold and its block is never closed.)
ledger_warning_for(cfg, name, size) ==
    LET limit == cfg.ledger_limit
        approaching == cfg.approaching_threshold
        strict == cfg.strict_mode
        strict_threshold == limit
        level == classify_size(size, limit, approaching, strict, strict_threshold)
    IN  IF level = <<>> THEN <<>>
        ELSE <<[struct_name |-> name, estimated_size |-> size,
                limit |-> limit, level |-> level[1]]>>

RECURSIVE ledger_warnings_of(_, _)
ledger_warnings_of(cfg, items) ==
    IF items = <<>> THEN <<>>
    ELSE LET item == Head(items)
             here == CASE item.k = "Struct" /\ has_contracttype(item.attrs) ->
                            ledger_warning_for(cfg, item.name, estimate_struct_size(item))
                       [] item.k = "Enum" /\ has_contracttype(item.attrs) ->
                            ledger_warning_for(cfg, item.name, estimate_enum_size(item))
                       [] OTHER -> <<>>
         IN  here \o ledger_warnings_of(cfg, Tail(items))

analyze_ledger_size_impl(cfg, src) ==
    IF ~src.parsed THEN <<>> ELSE ledger_warnings_of(cfg, src.items)

analyze_ledger_size(cfg, src, fault) == Guarded(fault, analyze_ledger_size_impl(cfg, src))


(***************************************************************************)
(* Storage-key-collision detector (StorageVisitor).  A text (a key value)  *)
(* is the sequence of its pieces; the value of a string literal "abc" is   *)
(* the one piece <<"abc">>.                                                *)
(***************************************************************************)
Quote == "\""

RECURSIVE RenderTokens(_)
\* quote!(#tokens).to_string(): the tokens' texts, a string literal between its
\* quotes, with a blank between two tokens.
RenderTokens(tokens) ==
    IF tokens = <<>> THEN <<>>
    ELSE LET tok == Head(tokens)
             one == IF tok.t = "Str" THEN <<Quote, tok.text, Quote>> ELSE <<tok.text>>
         IN  IF Tail(tokens) = <<>> THEN one
             ELSE one \o <<" ">> \o RenderTokens(Tail(tokens))

RECURSIVE trim_matches(_, _)
\* str::trim_matches(c): the text without its leading and trailing c's.
trim_matches(text, c) ==
    IF text = <<>> THEN text
    ELSE IF Head(text) = c THEN trim_matches(Tail(text), c)
    ELSE IF text[Len(text)] = c THEN trim_matches(SubSeq(text, 1, Len(text) - 1), c)
    ELSE text

\* StorageVisitor::new()
StorageVisitorNew == [collisions |-> <<>>, keys |-> <<>>]

\* add_key: self.keys.entry(value).or_default().push(info).  keys is the map, a
\* function from the values collected so far to their occurrences.
add_key(v, value, key_type, location, line) ==
    LET info == [value |-> value, key_type |-> key_type, location |-> location, line |-> line]
        before == IF value \in DOMAIN v.keys THEN v.keys[value] ELSE <<>>
    IN  [v EXCEPT !.keys = [x \in DOMAIN v.keys \cup {value} |->
                                IF x = value THEN Append(before, info) ELSE v.keys[x]]]

\* The part of visit_item_const before it descends.
storage_on_const(i, v) ==
    IF i.expr.k = "Lit" /\ i.expr.lit = "Str"
    THEN add_key(v, <<i.expr.value>>, "const", i.name, i.line)
    ELSE v

\* The part of visit_expr_call before it descends: Symbol::new(&env, "...").
storage_on_call(i, v) ==
    IF /\ i.func.k = "Path"
       /\ Len(i.func.segs) >= 2
       /\ i.func.segs[1] = "Symbol"
       /\ i.func.segs[2] = "new"
       /\ Len(i.args) >= 2
       /\ i.args[2].k = "Lit"
       /\ i.args[2].lit = "Str"
    THEN add_key(v, <<i.args[2].value>>, "Symbol::new", "inline", StartLine(i))
    ELSE v

\* The part of visit_expr_macro before it descends: symbol_short!(...).
storage_on_macro(i, v) ==
    LET macro_name == IF i.path = <<>> THEN "" ELSE i.path[Len(i.path)]
    IN  IF macro_name = "symbol_short"
        THEN add_key(v, trim_matches(RenderTokens(i.tokens), Quote),
                     "symbol_short!", "inline", StartLine(i))
        ELSE v

RECURSIVE storage_visit_expr(_, _)
RECURSIVE storage_visit_exprs(_, _)
RECURSIVE storage_visit_stmts(_, _)
RECURSIVE storage_visit_items(_, _)

storage_visit_exprs(es, v) ==
    IF es = <<>> THEN v ELSE storage_visit_exprs(Tail(es), storage_visit_expr(Head(es), v))

\* syn's visit_expr with visit_expr_call and visit_expr_macro overridden.
storage_visit_expr(e, v) ==
    CASE e.k = "Call" ->
           storage_visit_exprs(e.args, storage_visit_expr(e.func, storage_on_call(e, v)))
      [] e.k = "Macro" -> storage_on_macro(e, v)
      [] e.k = "MethodCall" -> storage_visit_exprs(e.args, storage_visit_expr(e.receiver, v))
      [] e.k = "Block" -> storage_visit_stmts(e.stmts, v)
      [] e.k = "If" ->
           storage_visit_exprs(e.else_branch,
               storage_visit_stmts(e.then_branch, storage_visit_expr(e.cond, v)))
      [] e.k = "Match" -> storage_visit_exprs(e.arms, storage_visit_expr(e.expr, v))
      [] e.k = "Binary" -> storage_visit_expr(e.right, storage_visit_expr(e.left, v))
      [] e.k = "ForLoop" -> storage_visit_stmts(e.body, storage_visit_expr(e.expr, v))
      [] e.k = "While" -> storage_visit_stmts(e.body, storage_visit_expr(e.cond, v))
      [] e.k = "Loop" -> storage_visit_stmts(e.body, v)
      [] e.k = "Closure" -> storage_visit_expr(e.body, v)
      [] e.k \in {"Reference", "Try"} -> storage_visit_expr(e.expr, v)
      [] OTHER -> v

\* A macro in statement position is a Stmt::Macro, which visit_expr_macro never sees.
storage_visit_stmts(stmts, v) ==
    IF stmts = <<>> THEN v
    ELSE LET stmt == Head(stmts)
             v1 == CASE stmt.k = "Expr" -> storage_visit_expr(stmt.expr, v)
                     [] stmt.k = "Local" -> storage_visit_exprs(stmt.init, v)
                     [] stmt.k = "Item" -> storage_visit_items(<<stmt.item>>, v)
                     [] OTHER -> v
         IN  storage_visit_stmts(Tail(stmts), v1)

storage_visit_items(items, v) ==
    IF items = <<>> THEN v
    ELSE LET item == Head(items)
             v1 == CASE item.k = "Const" -> storage_visit_expr(item.expr, storage_on_const(item, v))
                     [] item.k \in {"Fn", "ImplFn"} -> storage_visit_stmts(item.body, v)
                     [] item.k = "Impl" -> storage_visit_items(item.items, v)
                     [] OTHER -> v
         IN  storage_visit_items(Tail(items), v1)

\* An entry's issues where every occurrence is listed, its own too.
collisions_of_entry_all(value, infos) ==
    IF Len(infos) > 1
    THEN [i \in 1..Len(infos) |->
            [key_value |-> value,
             key_type |-> infos[i].key_type,
             location |-> <<infos[i].location, ":", infos[i].line>>,
             message |-> [text |-> "Potential storage key collision",
                          value |-> value,
                          also_used_in |-> [j \in 1..Len(infos) |->
                              <<infos[j].location, " (line ", infos[j].line, ")">>]]]]
    ELSE <<>>

\* The issues final_check pushes for one entry of the map, in the entry's order.
collisions_of_entry(value, infos) ==
    IF Len(infos) > 1
    THEN [i \in 1..Len(infos) |->
            LET current == infos[i]
                others == [j \in 1..(Len(infos) - 1) |->
                              LET info == infos[IF j < i THEN j ELSE j + 1]
                              \* format!("{} (line {})", info.location, info.line)
                              IN  <<info.location, " (line ", info.line, ")">>]
            IN  [key_value |-> value,
                 key_type |-> current.key_type,
                 \* format!("{}:{}", current.location, current.line)
                 location |-> <<current.location, ":", current.line>>,
                 message |-> [text |-> "Potential storage key collision",
                              value |-> value,
                              also_used_in |-> others]]]
    ELSE <<>>

\* final_check: `for (value, infos) in &self.keys`.  A HashMap iterates in an
\* order that its hasher's random seed decides; `order` is that order, a
\* listing of the map's keys.
final_check(v, order) ==
    [v EXCEPT !.collisions =
        @ \o Flatten([n \in 1..Len(order) |-> collisions_of_entry(order[n], v.keys[order[n]])])]

\* The visitor after visit_file.
storage_visited(src) == storage_visit_items(src.items, StorageVisitorNew)

\* The orders in which a HashMap with these keys may iterate.
IterationOrders(keys) ==
    {p \in [1..Cardinality(keys) -> keys] : \A i, j \in DOMAIN p : p[i] = p[j] => i = j}

scan_storage_collisions_impl(src, order) ==
    IF ~src.parsed THEN <<>>
    ELSE final_check(storage_visited(src), order).collisions

scan_storage_collisions(src, order, fault) ==
    Guarded(fault, scan_storage_collisions_impl(src, order))


(***************************************************************************)
(* Gas estimator (GasEstimator, GasEstimationVisitor).  The counts are     *)
(* usize; for the trees generated here they stay far below its maximum.    *)
(***************************************************************************)
\* GasEstimationVisitor::new: base cost of function entry, base stack usage.
GasVisitorNew == [instruction_count |-> 50, memory_bytes |-> 32]

\* GasEstimationVisitor::estimate_type_size
gas_estimate_type_size(ty) ==
    CASE ty.k = "Path" ->
           IF ty.segs = <<>> THEN 8
           ELSE LET name == ty.segs[Len(ty.segs)]
                IN  CASE name \in {"u32", "i32", "bool"} -> 4
                      [] name \in {"u64", "i64"} -> 8
                      [] name \in {"u128", "i128", "I128", "U128"} -> 16
                      [] name = "Address" -> 32
                      [] name \in {"Bytes", "BytesN", "String", "Symbol"} -> 64
                      [] name \in {"Vec", "Map"} -> 128
                      [] OTHER -> 32
      [] OTHER -> 8

\* The visitor with its counts raised.
GasAdd(v, instructions, memory) ==
    [v EXCEPT !.instruction_count = @ + instructions, !.memory_bytes = @ + memory]

\* visit_expr_method_call's cost of a method.
gas_method_cost(method) ==
    IF method \in {"get", "set", "has", "update", "remove"} THEN 1000
    ELSE IF method = "require_auth" THEN 500
    ELSE 25

RECURSIVE gas_visit_expr(_, _)
RECURSIVE gas_visit_exprs(_, _)
RECURSIVE gas_visit_block(_, _)

gas_visit_exprs(es, v) ==
    IF es = <<>> THEN v ELSE gas_visit_exprs(Tail(es), gas_visit_expr(Head(es), v))

\* A loop costed once: 50 and what a new visitor counts on the body.
gas_loop_once(body, v) ==
    LET inner_visitor == gas_visit_block(body, GasVisitorNew)
    IN  GasAdd(v, 50 + inner_visitor.instruction_count, inner_visitor.memory_bytes)

\* A loop: 50, then ten times what a new visitor counts on the body.
gas_loop(body, v) ==
    LET inner_visitor == gas_visit_block(body, GasVisitorNew)
    IN  GasAdd(v, 50 + inner_visitor.instruction_count * 10, inner_visitor.memory_bytes * 10)

\* syn's visit_expr with the visitor's overrides.
gas_visit_expr(e, v) ==
    CASE e.k = "Binary" ->
           gas_visit_expr(e.right, gas_visit_expr(e.left, GasAdd(v, 5, 0)))
      [] e.k = "Call" ->
           gas_visit_exprs(e.args, gas_visit_expr(e.func, GasAdd(v, 20, 0)))
      [] e.k = "MethodCall" ->
           gas_visit_exprs(e.args,
               gas_visit_expr(e.receiver, GasAdd(v, gas_method_cost(e.method), 0)))
      [] e.k = "ForLoop" -> gas_visit_expr(e.expr, gas_loop(e.body, v))
      [] e.k = "While" -> gas_visit_expr(e.cond, gas_loop(e.body, v))
      [] e.k = "Loop" -> gas_loop(e.body, v)
      [] e.k = "Macro" ->
           IF is_ident(e.path, "vec") \/ is_ident(e.path, "map") THEN GasAdd(v, 50, 128)
           ELSE IF is_ident(e.path, "symbol_short") \/ is_ident(e.path, "String")
                THEN GasAdd(v, 10, 32)
           ELSE GasAdd(v, 10, 0)
      [] e.k = "Block" -> gas_visit_block(e.stmts, v)
      [] e.k = "If" ->
           gas_visit_exprs(e.else_branch,
               gas_visit_block(e.then_branch, gas_visit_expr(e.cond, v)))
      [] e.k = "Match" -> gas_visit_exprs(e.arms, gas_visit_expr(e.expr, v))
      [] e.k = "Closure" -> gas_visit_expr(e.body, v)
      [] e.k \in {"Reference", "Try"} -> gas_visit_expr(e.expr, v)
      [] OTHER -> v

\* visit_block; visit_local for a let.  A macro in statement position is a
\* Stmt::Macro, which visit_expr_macro never sees.
gas_visit_block(stmts, v) ==
    IF stmts = <<>> THEN v
    ELSE LET stmt == Head(stmts)
             v1 == CASE stmt.k = "Expr" -> gas_visit_expr(stmt.expr, v)
                     [] stmt.k = "Local" ->
                          gas_visit_exprs(stmt.init,
                              GasAdd(v, 2, IF stmt.typed # <<>>
                                           THEN gas_estimate_type_size(stmt.typed[1])
                                           ELSE 8))
                     [] stmt.k = "Item" ->
                          IF stmt.item.k = "Fn" THEN gas_visit_block(stmt.item.body, v) ELSE v
                     [] OTHER -> v
         IN  gas_visit_block(Tail(stmts), v1)

\* One report per public function of an impl block.
GasEstimationReport(f) ==
    LET visitor == gas_visit_block(f.body, GasVisitorNew)
    IN  [function_name |-> f.name,
         estimated_instructions |-> visitor.instruction_count,
         estimated_memory_bytes |-> visitor.memory_bytes]

RECURSIVE gas_reports_of_fns(_, _)
gas_reports_of_fns(fns, reports) ==
    IF fns = <<>> THEN reports
    ELSE LET f == Head(fns)
         IN  gas_reports_of_fns(Tail(fns),
                 IF f.k = "ImplFn" /\ f.vis = "pub"
                 THEN Append(reports, GasEstimationReport(f))
                 ELSE reports)

RECURSIVE gas_reports_of_items(_, _)
gas_reports_of_items(items, reports) ==
    IF items = <<>> THEN reports
    ELSE LET item == Head(items)
         IN  gas_reports_of_items(Tail(items),
                 IF item.k = "Impl" THEN gas_reports_of_fns(item.items, reports) ELSE reports)

\* GasEstimator::estimate_contract
estimate_contract(src) ==
    IF ~src.parsed THEN <<>> ELSE gas_reports_of_items(src.items, <<>>)

scan_gas_estimation_impl(src) == estimate_contract(src)

scan_gas_estimation(src, fault) == Guarded(fault, scan_gas_estimation_impl(src))

(***************************************************************************)
(* Complexity analyzer (complexity.rs).                                    *)
(***************************************************************************)
THRESHOLD_CYCLOMATIC == 10
THRESHOLD_PARAMS == 5
THRESHOLD_NESTING == 4
THRESHOLD_LOC == 50

FnComplexityVisitorNew == [cyclomatic |-> 1, current_depth |-> 0, max_depth |-> 0]

\* The counters are u32; the trees analysed here keep them far below 2^32.
enter(v) ==
    LET d == v.current_depth + 1
    IN  [v EXCEPT !.current_depth = d,
                  !.max_depth = IF d > @ THEN d ELSE @]

\* A leave that does not lower the counter.
exit_stay(v) == v

\* saturating_sub(1)
exit(v) == [v EXCEPT !.current_depth = IF @ = 0 THEN 0 ELSE @ - 1]

\* A counter that takes every construct for one branch.
cx_add_one(v, n) == [v EXCEPT !.cyclomatic = @ + 1]

cx_add(v, n) == [v EXCEPT !.cyclomatic = @ + n]

RECURSIVE cx_visit_expr(_, _)
RECURSIVE cx_visit_exprs(_, _)
RECURSIVE cx_visit_stmts(_, _)
RECURSIVE cx_visit_items(_, _)

cx_visit_exprs(es, v) ==
    IF es = <<>> THEN v ELSE cx_visit_exprs(Tail(es), cx_visit_expr(Head(es), v))

\* syn's visit_expr with the seven overrides of FnComplexityVisitor; every other
\* kind only descends into its children. The visitor is borrowed mutably, so a
\* visit starts from what the visits before it have left in it: cyclomatic, which
\* starts at 1 and only grows.
cx_visit_expr(e, v) ==
    CASE v.cyclomatic = 0 -> v
      [] e.k = "If" ->
           exit(cx_visit_exprs(e.else_branch,
                   cx_visit_stmts(e.then_branch,
                       cx_visit_expr(e.cond, enter(cx_add(v, 1))))))
      [] e.k = "Match" ->
           \* arms.len().saturating_sub(1)
           LET extra == IF Len(e.arms) = 0 THEN 0 ELSE Len(e.arms) - 1
           IN  exit(cx_visit_exprs(e.arms, cx_visit_expr(e.expr, enter(cx_add(v, extra)))))
      [] e.k = "ForLoop" ->
           exit(cx_visit_stmts(e.body, cx_visit_expr(e.expr, enter(cx_add(v, 1)))))
      [] e.k = "While" ->
           exit(cx_visit_stmts(e.body, cx_visit_expr(e.cond, enter(cx_add(v, 1)))))
      [] e.k = "Loop" -> exit(cx_visit_stmts(e.body, enter(cx_add(v, 1))))
      [] e.k = "Closure" -> exit(cx_visit_expr(e.body, enter(cx_add(v, 1))))
      [] e.k = "Binary" ->
           cx_visit_expr(e.right,
               cx_visit_expr(e.left, IF e.op \in {"&&", "||"} THEN cx_add(v, 1) ELSE v))
      [] e.k = "Call" -> cx_visit_exprs(e.args, cx_visit_expr(e.func, v))
      [] e.k = "MethodCall" -> cx_visit_exprs(e.args, cx_visit_expr(e.receiver, v))
      [] e.k = "Block" -> cx_visit_stmts(e.stmts, v)
      [] e.k \in {"Reference", "Try"} -> cx_visit_expr(e.expr, v)
      \* a macro's tokens are not parsed: nothing below it is visited
      [] OTHER -> v

\* visit_block: a nested item is visited like any other statement, so the
\* constructs of a function defined inside the body are counted too.
cx_visit_stmts(stmts, v) ==
    IF stmts = <<>> THEN v
    ELSE LET stmt == Head(stmts)
             v1 == CASE stmt.k = "Expr" -> cx_visit_expr(stmt.expr, v)
                     [] stmt.k = "Local" -> cx_visit_exprs(stmt.init, v)
                     [] stmt.k = "Item" -> cx_visit_items(<<stmt.item>>, v)
                     [] OTHER -> v
         IN  cx_visit_stmts(Tail(stmts), v1)

cx_visit_items(items, v) ==
    IF items = <<>> THEN v
    ELSE LET item == Head(items)
             v1 == CASE item.k \in {"Fn", "ImplFn"} -> cx_visit_stmts(item.body, v)
                     [] item.k = "Impl" -> cx_visit_items(item.items, v)
                     [] item.k = "Const" -> cx_visit_expr(item.expr, v)
                     [] OTHER -> v
         IN  cx_visit_items(Tail(items), v1)

RECURSIVE breaks_of_tokens(_)
breaks_of_tokens(tokens) ==
    IF tokens = <<>> THEN 0 ELSE Breaks(Head(tokens)) + breaks_of_tokens(Tail(tokens))

RECURSIVE breaks_of_expr(_)
RECURSIVE breaks_of_exprs(_)
RECURSIVE breaks_of_stmts(_)
RECURSIVE breaks_of_items(_)

breaks_of_exprs(es) ==
    IF es = <<>> THEN 0 ELSE breaks_of_expr(Head(es)) + breaks_of_exprs(Tail(es))

\* quote!(#node).to_string(): the tokens are written on one line, separated by
\* spaces; the only line breaks of the text are those inside a literal token.
breaks_of_expr(e) ==
    CASE e.k = "Lit" -> Breaks(e)
      [] e.k = "Macro" -> breaks_of_tokens(e.tokens)
      [] e.k = "If" ->
           breaks_of_expr(e.cond) + breaks_of_stmts(e.then_branch) + breaks_of_exprs(e.else_branch)
      [] e.k = "Match" -> breaks_of_expr(e.expr) + breaks_of_exprs(e.arms)
      [] e.k = "ForLoop" -> breaks_of_expr(e.expr) + breaks_of_stmts(e.body)
      [] e.k = "While" -> breaks_of_expr(e.cond) + breaks_of_stmts(e.body)
      [] e.k = "Loop" -> breaks_of_stmts(e.body)
      [] e.k = "Closure" -> breaks_of_expr(e.body)
      [] e.k = "Binary" -> breaks_of_expr(e.left) + breaks_of_expr(e.right)
      [] e.k = "Call" -> breaks_of_expr(e.func) + breaks_of_exprs(e.args)
      [] e.k = "MethodCall" -> breaks_of_expr(e.receiver) + breaks_of_exprs(e.args)
      [] e.k = "Block" -> breaks_of_stmts(e.stmts)
      [] e.k \in {"Reference", "Try"} -> breaks_of_expr(e.expr)
      [] OTHER -> 0

breaks_of_stmts(stmts) ==
    IF stmts = <<>> THEN 0
    ELSE LET stmt == Head(stmts)
             here == CASE stmt.k = "Expr" -> breaks_of_expr(stmt.expr)
                       [] stmt.k = "Local" -> breaks_of_exprs(stmt.init)
                       [] stmt.k = "Macro" -> breaks_of_tokens(stmt.tokens)
                       [] stmt.k = "Item" -> breaks_of_items(<<stmt.item>>)
                       [] OTHER -> 0
         IN  here + breaks_of_stmts(Tail(stmts))

breaks_of_items(items) ==
    IF items = <<>> THEN 0
    ELSE LET item == Head(items)
             here == CASE item.k \in {"Fn", "ImplFn"} -> breaks_of_stmts(item.body)
                       [] item.k = "Impl" -> breaks_of_items(item.items)
                       [] item.k = "Const" -> breaks_of_expr(item.expr)
                       [] OTHER -> 0
         IN  here + breaks_of_items(Tail(items))

\* The rendered text of a function, as the number of line breaks it holds.
quote_to_string(node) == breaks_of_stmts(node.body)

\* token_str.lines().count(): the text never ends in a line break (it ends in
\* the closing brace), so it has one line more than it has breaks.
count_loc(token_str) == token_str + 1

\* An analysis that also warns about a metric standing at its threshold.
analyze_fn_inclusive(name, inputs, block, span_str) ==
    LET visitor == cx_visit_stmts(block, FnComplexityVisitorNew)
        param_count == inputs
        loc == count_loc(span_str)
        w1 == IF visitor.cyclomatic >= THRESHOLD_CYCLOMATIC
              THEN <<<<"Cyclomatic complexity", visitor.cyclomatic, THRESHOLD_CYCLOMATIC>>>>
              ELSE <<>>
        w2 == IF param_count >= THRESHOLD_PARAMS
              THEN <<<<"parameters", param_count, THRESHOLD_PARAMS>>>> ELSE <<>>
        w3 == IF visitor.max_depth >= THRESHOLD_NESTING
              THEN <<<<"Nesting depth", visitor.max_depth, THRESHOLD_NESTING>>>> ELSE <<>>
        w4 == IF loc >= THRESHOLD_LOC THEN <<<<"LOC", loc, THRESHOLD_LOC>>>> ELSE <<>>
    IN  [name |-> name,
         cyclomatic_complexity |-> visitor.cyclomatic,
         param_count |-> param_count,
         max_nesting_depth |-> visitor.max_depth,
         loc |-> loc,
         warnings |-> w1 \o w2 \o w3 \o w4]

\* The warnings of analyze_fn, as <<metric, value, threshold>> for the text
\* format!("... {} exceeds threshold {}", value, threshold).
analyze_fn(name, inputs, block, span_str) ==
    LET visitor == cx_visit_stmts(block, FnComplexityVisitorNew)
        param_count == inputs
        loc == count_loc(span_str)
        w1 == IF visitor.cyclomatic > THRESHOLD_CYCLOMATIC
              THEN <<<<"Cyclomatic complexity", visitor.cyclomatic, THRESHOLD_CYCLOMATIC>>>>
              ELSE <<>>
        w2 == IF param_count > THRESHOLD_PARAMS
              THEN <<<<"parameters", param_count, THRESHOLD_PARAMS>>>> ELSE <<>>
        w3 == IF visitor.max_depth > THRESHOLD_NESTING
              THEN <<<<"Nesting depth", visitor.max_depth, THRESHOLD_NESTING>>>> ELSE <<>>
        w4 == IF loc > THRESHOLD_LOC THEN <<<<"LOC", loc, THRESHOLD_LOC>>>> ELSE <<>>
    IN  [name |-> name,
         cyclomatic_complexity |-> visitor.cyclomatic,
         param_count |-> param_count,
         max_nesting_depth |-> visitor.max_depth,
         loc |-> loc,
         warnings |-> w1 \o w2 \o w3 \o w4]

FileVisitorNew == [functions |-> <<>>, dependency_count |-> 0]

RECURSIVE file_visit_expr(_, _)
RECURSIVE file_visit_exprs(_, _)
RECURSIVE file_visit_stmts(_, _)
RECURSIVE file_visit_items(_, _)

file_visit_exprs(es, fv) ==
    IF es = <<>> THEN fv ELSE file_visit_exprs(Tail(es), file_visit_expr(Head(es), fv))

\* FileVisitor overrides no expression method: expressions are only passed
\* through on the way to the items nested in them, with the metrics and the
\* dependency count gathered before them.
file_visit_expr(e, fv) ==
    CASE fv.dependency_count < 0 -> fv
      [] e.k = "If" ->
           file_visit_exprs(e.else_branch,
               file_visit_stmts(e.then_branch, file_visit_expr(e.cond, fv)))
      [] e.k = "Match" -> file_visit_exprs(e.arms, file_visit_expr(e.expr, fv))
      [] e.k = "ForLoop" -> file_visit_stmts(e.body, file_visit_expr(e.expr, fv))
      [] e.k = "While" -> file_visit_stmts(e.body, file_visit_expr(e.cond, fv))
      [] e.k = "Loop" -> file_visit_stmts(e.body, fv)
      [] e.k = "Closure" -> file_visit_expr(e.body, fv)
      [] e.k = "Binary" -> file_visit_expr(e.right, file_visit_expr(e.left, fv))
      [] e.k = "Call" -> file_visit_exprs(e.args, file_visit_expr(e.func, fv))
      [] e.k = "MethodCall" -> file_visit_exprs(e.args, file_visit_expr(e.receiver, fv))
      [] e.k = "Block" -> file_visit_stmts(e.stmts, fv)
      [] e.k \in {"Reference", "Try"} -> file_visit_expr(e.expr, fv)
      [] OTHER -> fv

file_visit_stmts(stmts, fv) ==
    IF stmts = <<>> THEN fv
    ELSE LET stmt == Head(stmts)
             fv1 == CASE stmt.k = "Expr" -> file_visit_expr(stmt.expr, fv)
                      [] stmt.k = "Local" -> file_visit_exprs(stmt.init, fv)
                      [] stmt.k = "Item" -> file_visit_items(<<stmt.item>>, fv)
                      [] OTHER -> fv
         IN  file_visit_stmts(Tail(stmts), fv1)

\* visit_item_use, visit_item_extern_crate, visit_item_fn (public functions
\* only) and visit_impl_item_fn (every method); the last two then descend.
file_visit_items(items, fv) ==
    IF items = <<>> THEN fv
    ELSE LET item == Head(items)
             m == analyze_fn(item.name, item.inputs, item.body, quote_to_string(item))
             fv1 == CASE item.k \in {"Use", "ExternCrate"} ->
                            [fv EXCEPT !.dependency_count = @ + 1]
                      [] item.k = "Fn" ->
                            file_visit_stmts(item.body,
                                IF item.vis = "pub"
                                THEN [fv EXCEPT !.functions = Append(@, m)] ELSE fv)
                      [] item.k = "ImplFn" ->
                            file_visit_stmts(item.body, [fv EXCEPT !.functions = Append(@, m)])
                      [] item.k = "Impl" -> file_visit_items(item.items, fv)
                      [] item.k = "Const" -> file_visit_expr(item.expr, fv)
                      [] OTHER -> fv
         IN  file_visit_items(Tail(items), fv1)

analyze_complexity(ast, contract_path) ==
    LET visitor == file_visit_items(ast.items, FileVisitorNew)
    IN  [contract_path |-> contract_path,
         dependency_count |-> visitor.dependency_count,
         functions |-> visitor.functions]

(***************************************************************************)
(* What a body contains, wherever it is: the sub-expressions of a tree,    *)
(* found by descending through every kind of node.                         *)
(***************************************************************************)
\* The statements' expressions, in source order.
StmtExprs(stmts) ==
    Flatten([i \in 1..Len(stmts) |->
        CASE stmts[i].k = "Expr" -> <<stmts[i].expr>>
          [] stmts[i].k = "Local" -> stmts[i].init
          [] OTHER -> <<>>])

\* The direct sub-expressions of an expression, in source order.
Kids(e) ==
    CASE e.k = "Call" -> <<e.func>> \o e.args
      [] e.k = "MethodCall" -> <<e.receiver>> \o e.args
      [] e.k = "Block" -> StmtExprs(e.stmts)
      [] e.k = "If" -> <<e.cond>> \o StmtExprs(e.then_branch) \o e.else_branch
      [] e.k = "Match" -> <<e.expr>> \o e.arms
      [] e.k = "Binary" -> <<e.left, e.right>>
      [] e.k = "ForLoop" -> <<e.expr>> \o StmtExprs(e.body)
      [] e.k = "While" -> <<e.cond>> \o StmtExprs(e.body)
      [] e.k = "Loop" -> StmtExprs(e.body)
      [] e.k = "Closure" -> <<e.body>>
      [] e.k \in {"Reference", "Try"} -> <<e.expr>>
      [] OTHER -> <<>>

RECURSIVE SubExprs(_)
\* e and every expression below it.
SubExprs(e) == {e} \cup UNION {SubExprs(c) : c \in Range(Kids(e))}

\* Every expression of a function body.
ExprsOfBody(stmts) == UNION {SubExprs(e) : e \in Range(StmtExprs(stmts))}

\* A call of set/update/remove whose receiver renders to a storage-like text.
IsStorageMutation(e) ==
    /\ e.k = "MethodCall"
    /\ e.method \in MutatingMethods
    /\ \E kw \in StorageKeywords : TextContains(Words(e.receiver), kw)

\* An invocation of an authorization primitive, as a free call or a method call.
IsAuthCall(e) ==
    \/ e.k = "MethodCall" /\ e.method \in AuthNames
    \/ /\ e.k = "Call"
       /\ e.func.k = "Path"
       /\ e.func.segs # <<>>
       /\ e.func.segs[Len(e.func.segs)] \in AuthNames

MutatesAnywhere(body) == \E e \in ExprsOfBody(body) : IsStorageMutation(e)
AuthAnywhere(body) == \E e \in ExprsOfBody(body) : IsAuthCall(e)

\* The functions defined in the impl blocks of a file, in declaration order.
ImplFns(src) ==
    Flatten([i \in 1..Len(src.items) |->
        IF src.items[i].k = "Impl"
        THEN SelectSeq(src.items[i].items, LAMBDA it : it.k = "ImplFn")
        ELSE <<>>])

(***************************************************************************)
(* Generated sources: bodies for the traversals.                           *)
(***************************************************************************)
StorageRecv(tier) == MethodCall(MethodCall(Ident("env"), "storage", <<>>), tier, <<>>)

MutLeaves ==
    { MethodCall(StorageRecv("instance"), "set", <<Ident("key"), Ident("val")>>),
      MethodCall(StorageRecv("persistent"), "remove", <<Ident("key")>>) }
AuthLeaves ==
    { MethodCall(Ident("admin"), "require_auth", <<>>),
      MethodCall(Ident("admin"), "require_auth_for_args", <<Ident("args")>>),
      Call(Ident("require_auth"), <<Ident("admin")>>) }
PlainLeaves ==
    { MethodCall(StorageRecv("instance"), "get", <<Ident("key")>>),
      MethodCall(Ident("map"), "set", <<Ident("key"), Ident("val")>>),
      MethodCall(Ident("map"), "set", <<Ident("storage_key"), Ident("val")>>),
      Ident("x") }
AuthGapLeaves == MutLeaves \cup AuthLeaves \cup PlainLeaves

\* The constructs a generated expression is wrapped in.
Wrappers ==
    {"Block", "IfCond", "IfThen", "IfElse", "MatchArm", "CallArg", "Receiver", "MethodArg",
     "ForBody", "Closure", "Reference", "Try"}

Wrap(w, e) ==
    CASE w = "Block" -> Block(<<StmtExpr(e)>>)
      [] w = "IfCond" -> If(e, <<>>, <<>>)
      [] w = "IfThen" -> If(Ident("c"), <<StmtExpr(e)>>, <<>>)
      [] w = "IfElse" -> If(Ident("c"), <<>>, <<Block(<<StmtExpr(e)>>)>>)
      [] w = "MatchArm" -> Match(Ident("x"), <<Ident("y"), e>>)
      [] w = "CallArg" -> Call(Ident("helper"), <<e>>)
      [] w = "Receiver" -> MethodCall(e, "clone", <<>>)
      [] w = "MethodArg" -> MethodCall(Ident("v"), "push", <<e>>)
      [] w = "ForBody" -> ForLoop(Ident("xs"), <<StmtExpr(e)>>)
      [] w = "Closure" -> Closure(e)
      [] w = "Reference" -> Reference(e)
      [] w = "Try" -> Try(e)

RECURSIVE Wrapped(_, _)
\* The leaves under at most n wrappers.
Wrapped(leaves, n) ==
    IF n = 0 THEN leaves
    ELSE LET inner == Wrapped(leaves, n - 1)
         IN  inner \cup {Wrap(w, e) : w \in Wrappers, e \in inner}

\* A statement holding the expression: `e;` or `let y = e;`.
StmtsOf(e) == {StmtExpr(e), StmtLocal(<<>>, <<e>>)}

\* Bodies of one expression nested up to `depth` deep, alone or beside one plain
\* statement.
NestedBodies(leaves, companions, depth) ==
    LET nested == UNION {StmtsOf(e) : e \in Wrapped(leaves, depth)}
    IN  {<<s>> : s \in nested}
        \cup {<<s, c>> : s \in nested, c \in companions}
        \cup {<<c, s>> : s \in nested, c \in companions}

AuthCompanions ==
    { StmtExpr(MethodCall(StorageRecv("instance"), "set", <<Ident("key"), Ident("val")>>)),
      StmtExpr(MethodCall(Ident("admin"), "require_auth", <<>>)),
      StmtExpr(Call(Ident("require_auth"), <<Ident("admin")>>)),
      StmtMacro(<<"require_auth">>, <<TokIdent("admin")>>) }

Visibilities == {"pub", "inherited"}
FnNames == {"f", "g"}

\* Files of up to n functions, all in one impl block or each in its own.
FilesOfFns(fns, n) ==
    {ParsedFile(<<ItemImpl(fs)>>) : fs \in SeqsUpTo(fns, n) \ {<<>>}}
    \cup {ParsedFile([i \in 1..Len(fs) |-> ItemImpl(<<fs[i]>>)]) :
            fs \in SeqsUpTo(fns, n) \ {<<>>}}

AuthFlatBodies ==
    { <<StmtExpr(MethodCall(StorageRecv("instance"), "set", <<Ident("key"), Ident("val")>>))>>,
      <<StmtExpr(MethodCall(Ident("admin"), "require_auth", <<>>)),
        StmtExpr(MethodCall(StorageRecv("instance"), "set", <<Ident("key"), Ident("val")>>))>>,
      <<StmtExpr(MethodCall(StorageRecv("instance"), "get", <<Ident("key")>>))>> }

AuthSources(depth, fns) ==
    {Unparsable}
    \cup {ParsedFile(<<ItemImpl(<<ImplItemFn("f", vis, 1, body)>>)>>) :
            vis \in Visibilities, body \in NestedBodies(AuthGapLeaves, AuthCompanions, depth)}
    \cup FilesOfFns({ImplItemFn(n, vis, 1, body) :
            n \in FnNames, vis \in Visibilities, body \in AuthFlatBodies}, fns)

(***************************************************************************)
(* The facade: one action per detector method.                             *)
(***************************************************************************)
DefaultConfig == [ledger_limit |-> 64000, approaching_threshold |-> 80, strict_mode |-> FALSE]

\* One call of a detector method on the Analyzer: its result joins the log.
\* `fault` says whether the traversal of this call panicked.
Record(detector, fault, result) ==
    /\ Len(calls) < MaxCalls
    /\ calls' = Append(calls, [detector |-> detector, fault |-> fault, result |-> result])
    /\ UNCHANGED <<config, source, runs, pool, file>>

ScanAuthGaps ==
    \E fault \in BOOLEAN : Record("scan_auth_gaps", fault, scan_auth_gaps(source, fault))

InitAuth ==
    /\ config = DefaultConfig
    /\ source \in AuthSources(MaxDepth, MaxFns)
    /\ calls = <<>>
    /\ runs = <<>>
    /\ pool = <<>>
    /\ file = <<>>

NextAuth == ScanAuthGaps

SpecAuth == InitAuth /\ [][NextAuth]_vars

\* The results of the calls of one detector whose traversal ran to its end.
ResultsOf(detector) ==
    {calls[i].result :
        i \in {j \in 1..Len(calls) : calls[j].detector = detector /\ ~calls[j].fault}}

\* How often a value occurs in a list.
Occurrences(list, x) == Cardinality({i \in 1..Len(list) : list[i] = x})

\* The function's name is borne by no other function of the impl blocks.
UniqueName(f) == Occurrences([i \in 1..Len(ImplFns(source)) |-> ImplFns(source)[i].name], f.name) = 1

(***************************************************************************)
(* Claims: the authorization-gap detector.                                 *)
(***************************************************************************)
\* C1: after scan_auth_gaps, every function of an impl block whose body holds,
\* anywhere, a set/update/remove call on a storage-like receiver, and holds no
\* require_auth / require_auth_for_args call anywhere, has its name exactly once
\* in the returned list.  Stated for the public functions, which are the ones the
\* detector looks at, and for names that identify one function.
C1_GapReportedOnce ==
    \A gaps \in ResultsOf("scan_auth_gaps") :
        \A f \in Range(ImplFns(source)) :
            ( /\ f.vis = "pub"
              /\ UniqueName(f)
              /\ MutatesAnywhere(f.body)
              /\ ~AuthAnywhere(f.body) )
            => Occurrences(gaps, f.name) = 1

\* C2: after scan_auth_gaps, a function whose body holds a require_auth /
\* require_auth_for_args invocation (free call or method call) at any position is
\* absent from the returned list, also when it mutates storage.  Stated for names
\* that identify one function.
C2_AuthSuppressesGap ==
    \A gaps \in ResultsOf("scan_auth_gaps") :
        \A f \in Range(ImplFns(source)) :
            (UniqueName(f) /\ AuthAnywhere(f.body))
            => Occurrences(gaps, f.name) = 0

(***************************************************************************)
(* Generated sources for the arithmetic detector.                          *)
(***************************************************************************)
\* How many operators a generated chain a op b op c ... holds.
MaxChain == 3

ChainOps == ArithOps \cup {">", "&&", "&"}

RECURSIVE ChainExpr(_, _, _, _)
\* ((first op1 x) op2 x) ... opn last, every operand standing on `line`.
ChainExpr(ops, first, last, line) ==
    IF Len(ops) = 1 THEN Binary(ops[1], At(first, line), At(last, line))
    ELSE Binary(ops[Len(ops)],
                ChainExpr(SubSeq(ops, 1, Len(ops) - 1), first, Ident("x"), line),
                At(last, line))

ChainOperands == {Ident("a"), LitStr("s")}

\* Bodies of one chain of up to n operators.
ChainBodies(line, n) ==
    {<<StmtExpr(ChainExpr(ops, first, Ident("b"), line))>> :
        ops \in SeqsUpTo(ChainOps, n) \ {<<>>}, first \in ChainOperands}

ArithLeaves(line) ==
    { Binary("+", At(Ident("a"), line), At(Ident("b"), line)),
      Binary("-=", At(Ident("a"), line), At(LitInt(1), line)),
      Binary("+", At(LitStr("s"), line), At(Ident("b"), line)),
      Binary("+", At(Ident("a"), line), At(LitStr("s"), line)),
      Binary(">", At(Ident("a"), line), At(Ident("b"), line)) }

ArithCompanions(line) ==
    { StmtExpr(Binary("+", At(Ident("c"), line), At(Ident("d"), line))),
      StmtExpr(Binary("*", At(Ident("c"), line), At(Ident("d"), line))),
      StmtMacro(<<"assert">>, <<TokIdent("a"), TokPunct("+"), TokIdent("b")>>) }

\* Function i of a file stands on the lines 10*i ...; kinds are impl methods or free functions.
ArithFnChoices == [name : FnNames, body : {1, 2, 3}, free : BOOLEAN]

ArithFlatBody(choice, line) ==
    CASE choice = 1 -> <<StmtExpr(Binary("+", At(Ident("a"), line), At(Ident("b"), line)))>>
      [] choice = 2 ->
           <<StmtExpr(Binary("-", At(Ident("a"), line), At(Ident("b"), line))),
             StmtExpr(Binary("+", At(Ident("c"), line + 1), At(Ident("d"), line + 1)))>>
      [] choice = 3 -> <<StmtExpr(Binary(">", At(Ident("a"), line), At(Ident("b"), line)))>>

ArithItemOf(c, i) ==
    IF c.free THEN ItemFn(c.name, "pub", 2, ArithFlatBody(c.body, 10 * i))
    ELSE ItemImpl(<<ImplItemFn(c.name, "pub", 2, ArithFlatBody(c.body, 10 * i))>>)

ArithSources(chain, depth, fns) ==
    {Unparsable}
    \cup {ParsedFile(<<ItemImpl(<<ImplItemFn("f", "pub", 2, body)>>)>>) :
            body \in ChainBodies(10, chain)
                     \cup NestedBodies(ArithLeaves(10), ArithCompanions(11), depth)}
    \cup {ParsedFile([i \in 1..Len(cs) |-> ArithItemOf(cs[i], i)]) :
            cs \in SeqsUpTo(ArithFnChoices, fns) \ {<<>>}}
    \cup {ParsedFile(<<ItemConst("K", Binary("+", At(LitInt(1), 1), At(LitInt(2), 1)), 1)>>)}

ScanArithmeticOverflow ==
    \E fault \in BOOLEAN :
        Record("scan_arithmetic_overflow", fault, scan_arithmetic_overflow(source, fault))

InitArith ==
    /\ config = DefaultConfig
    /\ source \in ArithSources(MaxChain, MaxDepth, MaxFns)
    /\ calls = <<>>
    /\ runs = <<>>
    /\ pool = <<>>
    /\ file = <<>>

NextArith == ScanArithmeticOverflow

SpecArith == InitArith /\ [][NextArith]_vars

\* The functions of a file, free functions and impl methods, in declaration order.
FileFns(src) ==
    Flatten([i \in 1..Len(src.items) |->
        CASE src.items[i].k = "Fn" -> <<src.items[i]>>
          [] src.items[i].k = "Impl" ->
               SelectSeq(src.items[i].items, LAMBDA it : it.k = "ImplFn")
          [] OTHER -> <<>>])

\* The binary expressions of a body that hold an overflow-prone operator and no
\* string-literal operand.
RiskyBinaries(body) ==
    {e \in ExprsOfBody(body) :
        /\ e.k = "Binary"
        /\ e.op \in ArithOps
        /\ ~(e.left.k = "Lit" /\ e.left.lit = "Str")
        /\ ~(e.right.k = "Lit" /\ e.right.lit = "Str")}

RiskyOps(body) == {e.op : e \in RiskyBinaries(body)}

\* The source lines a function's expressions start on.
LinesOfBody(body) == {StartLine(e) : e \in ExprsOfBody(body)}

(***************************************************************************)
(* Claims: the arithmetic-overflow detector.                               *)
(***************************************************************************)
\* C3: for every function f of the file (free function or impl method, two
\* functions of different impl blocks being two functions) and every operator
\* among + - * += -= *= that f's body holds in a binary expression with no
\* string-literal operand, the result holds exactly one issue for (f, op): one
\* issue with f's name and op whose location lies in f.
C3_OneIssuePerFunctionAndOp ==
    \A issues \in ResultsOf("scan_arithmetic_overflow") :
        \A i \in 1..Len(FileFns(source)) :
            LET f == FileFns(source)[i]
            IN  \A op \in RiskyOps(f.body) :
                    Cardinality({j \in 1..Len(issues) :
                        /\ issues[j].function_name = f.name
                        /\ issues[j].operation = op
                        /\ issues[j].location[3] \in LinesOfBody(f.body)}) = 1

\* Whether a suggestion text names a method.
SuggestionNames(text, method) ==
    \/ /\ method = "checked_add"
       /\ text \in {"Use .checked_add(rhs) or .saturating_add(rhs) to handle overflow",
                    "Replace a += b with a = a.checked_add(b).expect('overflow')"}
    \/ /\ method = "checked_sub"
       /\ text \in {"Use .checked_sub(rhs) or .saturating_sub(rhs) to handle underflow",
                    "Replace a -= b with a = a.checked_sub(b).expect('underflow')"}
    \/ /\ method = "checked_mul"
       /\ text \in {"Use .checked_mul(rhs) or .saturating_mul(rhs) to handle overflow",
                    "Replace a *= b with a = a.checked_mul(b).expect('overflow')"}

CheckedMethodOf(op) ==
    CASE op \in {"+", "+="} -> "checked_add"
      [] op \in {"-", "-="} -> "checked_sub"
      [] op \in {"*", "*="} -> "checked_mul"

\* C4: an issue is emitted only for + - * += -= *= (never for a comparison, a
\* logical or a bitwise operator) and only for a binary expression of the named
\* function that has no string-literal operand; each operator such a function
\* uses gives one issue under the function's name (three for +, - and *); an
\* issue carries its operator's suggestion, which names the checked method, and a
\* location made of the function name, ':' and a line.
C4_OnlyOverflowOperators ==
    \A issues \in ResultsOf("scan_arithmetic_overflow") :
        /\ \A j \in 1..Len(issues) :
              LET is == issues[j]
              IN  /\ is.operation \in ArithOps
                  /\ SuggestionNames(is.suggestion, CheckedMethodOf(is.operation))
                  /\ \A k \in 1..Len(issues) :
                        issues[k].operation = is.operation
                            => issues[k].suggestion = is.suggestion
                  /\ is.location[1] = is.function_name
                  /\ is.location[2] = ":"
                  /\ \E f \in Range(FileFns(source)) :
                        /\ f.name = is.function_name
                        /\ \E e \in RiskyBinaries(f.body) :
                              e.op = is.operation /\ StartLine(e.left) = is.location[3]
        /\ \A f \in Range(FileFns(source)) :
              \A op \in RiskyOps(f.body) :
                  Cardinality({j \in 1..Len(issues) :
                      issues[j].function_name = f.name /\ issues[j].operation = op}) = 1

\* A function using +, - and * once each, beside nothing else, got its three issues.
C4_Witness ==
    \E issues \in ResultsOf("scan_arithmetic_overflow") :
        /\ Len(FileFns(source)) = 1
        /\ Len(issues) = 3
        /\ {issues[j].operation : j \in 1..3} = {"+", "-", "*"}
        /\ Cardinality({e \in ExprsOfBody(FileFns(source)[1].body) : e.k = "Binary"}) = 3

(***************************************************************************)
(* Generated sources and configurations for the ledger-size estimator.     *)
(***************************************************************************)
\* How many fields a generated struct holds.
MaxFields == 2

FieldTypes ==
    { TypeNamed("u32"), TypeNamed("u128"), TypeNamed("Address"), TypeNamed("Bytes"),
      TypePath(<<"Vec">>, <<TypeArg(TypeNamed("u64"))>>),
      TypePath(<<"Option">>, <<TypeArg(TypeNamed("u32"))>>),
      TypeArray(TypeNamed("u32"), LitInt(3)),
      TypeOther }

AttrLists ==
    { <<>>,
      <<Attr("Path", <<"contracttype">>)>>,
      <<Attr("List", <<"derive">>), Attr("Path", <<"soroban_sdk", "contracttype">>)>>,
      <<Attr("List", <<"derive">>)>>,
      <<Attr("List", <<"contracttype">>)>> }

\* Structs of up to n named fields, unit structs, one-field tuple structs.
StructItems(name, n) ==
    {ItemStruct(attrs, name, "Named", tys) :
        attrs \in AttrLists, tys \in SeqsUpTo(FieldTypes, n) \ {<<>>}}
    \cup {ItemStruct(attrs, name, "Unit", <<>>) : attrs \in AttrLists}
    \cup {ItemStruct(<<Attr("Path", <<"contracttype">>)>>, name, "Unnamed", <<ty>>) :
            ty \in FieldTypes}

EnumVariants ==
    { Variant("Unit", <<>>),
      Variant("Unnamed", <<TypeNamed("Address")>>),
      Variant("Unnamed", <<TypeNamed("Address"), TypeNamed("Address")>>),
      Variant("Named", <<TypeNamed("Bytes"), TypeNamed("u128")>>) }

EnumItems(name) ==
    {ItemEnum(attrs, name, vs) :
        attrs \in {<<>>, <<Attr("Path", <<"contracttype">>)>>},
        vs \in SeqsUpTo(EnumVariants, 2) \ {<<>>}}

LedgerSources(fields) ==
    {Unparsable}
    \cup {ParsedFile(<<it>>) : it \in StructItems("Data", fields) \cup EnumItems("Key")}
    \cup {ParsedFile(<<e, s>>) :
            e \in {ItemEnum(<<Attr("Path", <<"contracttype">>)>>, "Key", <<v>>) : v \in EnumVariants},
            s \in {ItemStruct(<<Attr("Path", <<"contracttype">>)>>, "Data", "Named", <<ty>>) :
                    ty \in FieldTypes}}

\* SanctifyConfig: the fields the detectors read.  approaching_threshold is the
\* f64 of the code as a percentage (0.8 is 80).
LedgerConfigs ==
    [ledger_limit : {0, 50, 64, 100}, approaching_threshold : {50, 80}, strict_mode : BOOLEAN]

AnalyzeLedgerSize ==
    \E fault \in BOOLEAN :
        Record("analyze_ledger_size", fault, analyze_ledger_size(config, source, fault))

InitLedger ==
    /\ config \in LedgerConfigs
    /\ source \in LedgerSources(MaxFields)
    /\ calls = <<>>
    /\ runs = <<>>
    /\ pool = <<>>
    /\ file = <<>>

NextLedger == AnalyzeLedgerSize

SpecLedger == InitLedger /\ [][NextLedger]_vars

\* The struct and enum items of the file that carry the persisted-layout marker.
PersistedItems(src) ==
    {it \in Range(src.items) : it.k \in {"Struct", "Enum"} /\ has_contracttype(it.attrs)}

EstimatedSize(it) ==
    IF it.k = "Struct" THEN estimate_struct_size(it) ELSE estimate_enum_size(it)

\* The warnings a result holds for a type.
WarningsFor(warnings, name) == SelectSeq(warnings, LAMBDA w : w.struct_name = name)

CarriesMarker(it) ==
    \E a \in Range(it.attrs) : a.path # <<>> /\ a.path[Len(a.path)] = "contracttype"

\* The largest member of a set of naturals, 0 for the empty set.
MaxOf(S) == CHOOSE m \in S \cup {0} : \A x \in S : x <= m

\* The size the layout rule gives: the fields' sizes added up for a struct, the
\* discriminant plus the largest variant's field sum for an enum.
LayoutSize(it) ==
    IF it.k = "Struct" THEN SumSizes(it.tys)
    ELSE 4 + MaxOf({SumSizes(v.tys) : v \in Range(it.variants)})

\* C12: after analyze_ledger_size, every warning names a struct or enum of the
\* file that carries the contracttype marker, and its estimated_size is the sum
\* of the field sizes for a struct (0 for a unit struct) and 4 plus the largest
\* variant field sum for an enum (4 when every variant is a unit variant), never
\* the sum over variants; under a limit of 0 every such item recognised by the
\* analyzer is sized and reported.
C12_LayoutSize ==
    \A warnings \in ResultsOf("analyze_ledger_size") :
        /\ \A i \in 1..Len(warnings) :
              \E it \in Range(source.items) :
                  /\ it.k \in {"Struct", "Enum"}
                  /\ it.name = warnings[i].struct_name
                  /\ CarriesMarker(it)
                  /\ warnings[i].estimated_size = LayoutSize(it)
        /\ config.ledger_limit = 0 =>
              \A it \in PersistedItems(source) :
                  /\ Len(WarningsFor(warnings, it.name)) = 1
                  /\ WarningsFor(warnings, it.name)[1].estimated_size = LayoutSize(it)
                  /\ (it.k = "Struct" /\ it.fields = "Unit") => LayoutSize(it) = 0
                  /\ (it.k = "Enum" /\ \A v \in Range(it.variants) : v.fields = "Unit")
                        => LayoutSize(it) = 4

\* An enum of two variants with different non-zero field sums was sized at 4
\* plus the larger one.
C12_Witness ==
    \E warnings \in ResultsOf("analyze_ledger_size") :
        \E it \in PersistedItems(source) :
            /\ it.k = "Enum"
            /\ Len(it.variants) = 2
            /\ 0 < SumSizes(it.variants[1].tys)
            /\ SumSizes(it.variants[1].tys) < SumSizes(it.variants[2].tys)
            /\ Len(WarningsFor(warnings, it.name)) = 1
            /\ WarningsFor(warnings, it.name)[1].estimated_size
                  = 4 + SumSizes(it.variants[2].tys)

\* C6: with strict_mode on, a persisted-layout type of size S >= ledger_limit * 0.5
\* is classified ExceedsLimit, also when S < ledger_limit and before
\* ApproachingLimit is considered; a size below both limit * 0.5 and limit *
\* approaching_threshold gets no warning.
C6_StrictModeHalvesLimit ==
    \A warnings \in ResultsOf("analyze_ledger_size") :
        config.strict_mode =>
            \A it \in PersistedItems(source) :
                LET S == EstimatedSize(it)
                    L == config.ledger_limit
                    T == config.approaching_threshold
                    ws == WarningsFor(warnings, it.name)
                IN  /\ 2 * S >= L => Len(ws) = 1 /\ ws[1].level = "ExceedsLimit"
                    /\ (2 * S < L /\ 100 * S < L * T) => ws = <<>>

(***************************************************************************)
(* Generated sources for the storage-key-collision detector: a file is a   *)
(* list of sites, the site at position n on line 10 * n.                   *)
(***************************************************************************)
MaxSites == 4
MaxMixed == 2

KeyTexts == {"a", "b"}

\* A function holding one statement.
SiteFn(stmt) == ItemFn("x", "pub", 0, <<stmt>>)

\* The items of the three collected kinds, on a line, for each text.
CollectedItems(line) ==
    {ItemConst("KEY", LitStr(t), line) : t \in KeyTexts}
    \cup {SiteFn(StmtLocal(<<>>, <<At(Call(Path(<<"Symbol", "new">>),
                                          <<Reference(Ident("env")), LitStr(t)>>), line)>>)) :
            t \in KeyTexts}
    \cup {SiteFn(StmtLocal(<<>>, <<At(ExprMacro(<<"symbol_short">>, <<TokStr(t)>>), line)>>)) :
            t \in KeyTexts}

\* Three look-alikes: a constant that is no string, a Symbol::new of a variable,
\* a symbol_short! in statement position.
LookalikeItems(line) ==
    {ItemConst("LIMIT", LitInt(7), line),
     SiteFn(StmtLocal(<<>>, <<At(Call(Path(<<"Symbol", "new">>),
                                     <<Reference(Ident("env")), Ident("name")>>), line)>>)),
     SiteFn(StmtMacro(<<"symbol_short">>, <<TokStr("a")>>))}

RECURSIVE SiteLists(_, _)
\* The lists of n sites; look-alikes are among them when `mixed`.
SiteLists(n, mixed) ==
    IF n = 0 THEN {<<>>}
    ELSE {Append(items, it) :
            items \in SiteLists(n - 1, mixed),
            it \in CollectedItems(10 * n) \cup (IF mixed THEN LookalikeItems(10 * n) ELSE {})}

\* Long lists of collected sites, short lists of all sites.
CollisionSources(sites, mixed) ==
    {ParsedFile(items) :
        items \in UNION {SiteLists(n, FALSE) : n \in 1..sites}
                  \cup UNION {SiteLists(n, TRUE) : n \in 1..mixed}}

ScanStorageCollisions ==
    \E fault \in BOOLEAN :
        \E order \in IterationOrders(DOMAIN storage_visited(source).keys) :
            Record("scan_storage_collisions", fault,
                   scan_storage_collisions(source, order, fault))

InitColl ==
    /\ config = DefaultConfig
    /\ source \in CollisionSources(MaxSites, MaxMixed)
    /\ calls = <<>>
    /\ runs = <<>>
    /\ pool = <<>>
    /\ file = <<>>

NextColl == ScanStorageCollisions

SpecColl == InitColl /\ [][NextColl]_vars

\* The occurrences the pass collected for each value.
CollectedKeys == storage_visited(source).keys

\* The issues of a result that bear a value, in the result's order.
IssuesOf(issues, value) == SelectSeq(issues, LAMBDA is : is.key_value = value)

\* s without its i-th entry.
Without(s, i) == [j \in 1..(Len(s) - 1) |-> s[IF j < i THEN j ELSE j + 1]]

\* The occurrences of the values collected twice or more: <<value, position>>.
CollidingOccurrences(keys) ==
    UNION {{<<value, i>> : i \in 1..Len(keys[value])} :
              value \in {x \in DOMAIN keys : Len(keys[x]) >= 2}}

(***************************************************************************)
(* Claims: storage-key collisions.                                         *)
(***************************************************************************)
\* C7: after scan_storage_collisions, a value collected N >= 2 times yields
\* exactly N issues, the i-th bearing the kind and location of the i-th occurrence
\* and a message that lists exactly the other N - 1 occurrences; a value collected
\* once yields none; the number of issues is the sum of N over the values with
\* N >= 2.
C7_OneIssuePerOccurrence ==
    LET keys == CollectedKeys
    IN  \A issues \in ResultsOf("scan_storage_collisions") :
            /\ \A value \in DOMAIN keys :
                  LET infos == keys[value]
                      N == Len(infos)
                      mine == IssuesOf(issues, value)
                  IN  IF N >= 2
                      THEN /\ Len(mine) = N
                           /\ \A i \in 1..N :
                                 LET others == Without(infos, i)
                                 IN  /\ mine[i].key_type = infos[i].key_type
                                     /\ mine[i].location =
                                            <<infos[i].location, ":", infos[i].line>>
                                     /\ mine[i].message.value = value
                                     /\ Len(mine[i].message.also_used_in) = N - 1
                                     /\ mine[i].message.also_used_in =
                                            [j \in 1..(N - 1) |->
                                                <<others[j].location, " (line ",
                                                  others[j].line, ")">>]
                      ELSE Len(mine) = 0
            /\ Len(issues) = Cardinality(CollidingOccurrences(keys))

\* Three occurrences of one value from a mix of kinds, and three issues.
C7_Witness ==
    \E issues \in ResultsOf("scan_storage_collisions") :
        \E value \in DOMAIN CollectedKeys :
            /\ Len(CollectedKeys[value]) = 3
            /\ Len(issues) = 3
            /\ Cardinality({CollectedKeys[value][i].key_type : i \in 1..3}) >= 2

\* C8: two runs of a detector on the same source with the same configuration
\* return the same list of findings, in the same order.
C8_SameInputSameFindings ==
    \A i, j \in 1..Len(calls) :
        (calls[i].detector = calls[j].detector /\ ~calls[i].fault /\ ~calls[j].fault)
            => calls[i].result = calls[j].result

(***************************************************************************)
(* Generated sources for the panic detector.                               *)
(***************************************************************************)
PanicLeaves ==
    { ExprMacro(<<"panic">>, <<TokStr("m")>>),
      ExprMacro(<<"std", "panic">>, <<TokStr("m")>>),
      ExprMacro(<<"unreachable">>, <<>>),
      MethodCall(Ident("x"), "unwrap", <<>>),
      MethodCall(Ident("x"), "expect", <<LitStr("m")>>),
      MethodCall(MethodCall(Ident("x"), "unwrap", <<>>), "expect", <<LitStr("m")>>),
      MethodCall(MethodCall(Ident("x"), "unwrap", <<>>), "unwrap", <<>>),
      MethodCall(Ident("x"), "unwrap_or", <<MethodCall(Ident("y"), "unwrap", <<>>)>>),
      Ident("x") }

PanicCompanions ==
    { StmtMacro(<<"panic">>, <<TokStr("m")>>),
      StmtMacro(<<"assert">>, <<TokIdent("ok")>>),
      StmtExpr(MethodCall(Ident("x"), "unwrap", <<>>)),
      StmtLocal(<<>>, <<MethodCall(Ident("x"), "expect", <<LitStr("m")>>)>>) }

PanicFlatBodies ==
    { <<StmtMacro(<<"panic">>, <<TokStr("m")>>)>>,
      <<StmtExpr(MethodCall(Ident("x"), "unwrap", <<>>)), StmtMacro(<<"panic">>, <<TokStr("m")>>)>>,
      <<StmtExpr(Ident("x"))>> }

\* The file of test_scan_panics: four functions in one impl block.
TestScanPanicsSource ==
    ParsedFile(<<ItemImpl(<<
        ImplItemFn("unsafe_fn", "pub", 1, <<StmtMacro(<<"panic">>, <<TokStr("m")>>)>>),
        ImplItemFn("unsafe_unwrap", "pub", 1,
            <<StmtLocal(<<TypePath(<<"Option">>, <<TypeArg(TypeNamed("u32"))>>)>>, <<Ident("None")>>),
              StmtLocal(<<>>, <<MethodCall(Ident("x"), "unwrap", <<>>)>>)>>),
        ImplItemFn("unsafe_expect", "pub", 1,
            <<StmtLocal(<<TypePath(<<"Option">>, <<TypeArg(TypeNamed("u32"))>>)>>, <<Ident("None")>>),
              StmtLocal(<<>>, <<MethodCall(Ident("x"), "expect", <<LitStr("m")>>)>>)>>),
        ImplItemFn("safe_fn", "pub", 1, <<StmtExpr(Call(Ident("Ok"), <<Ident("unit")>>))>>) >>)>>)

PanicSources(depth, fns) ==
    {Unparsable, TestScanPanicsSource}
    \cup {ParsedFile(<<ItemImpl(<<ImplItemFn("f", "pub", 1, body)>>)>>) :
            body \in NestedBodies(PanicLeaves, PanicCompanions, depth)}
    \cup FilesOfFns({ImplItemFn(n, vis, 1, body) :
            n \in FnNames, vis \in Visibilities, body \in PanicFlatBodies}, fns)
    \cup {ParsedFile(<<ItemFn("free", "pub", 1, <<StmtMacro(<<"panic">>, <<TokStr("m")>>)>>)>>)}

ScanPanics ==
    \E fault \in BOOLEAN : Record("scan_panics", fault, scan_panics(source, fault))

InitPanics ==
    /\ config = DefaultConfig
    /\ source \in PanicSources(MaxDepth, MaxFns)
    /\ calls = <<>>
    /\ runs = <<>>
    /\ pool = <<>>
    /\ file = <<>>

NextPanics == ScanPanics

SpecPanics == InitPanics /\ [][NextPanics]_vars

\* The nodes of a block the detector looks at: the expression of an expression
\* statement, the initializer of a let, a macro in statement position.
PanicStmtNodes(stmts) ==
    Flatten([i \in 1..Len(stmts) |->
        CASE stmts[i].k = "Expr" -> <<stmts[i].expr>>
          [] stmts[i].k = "Local" -> stmts[i].init
          [] stmts[i].k = "Macro" -> <<ExprMacro(stmts[i].path, stmts[i].tokens)>>
          [] OTHER -> <<>>])

\* The children of a node the detector descends into, in source order.
PanicKids(e) ==
    CASE e.k = "MethodCall" -> <<e.receiver>> \o e.args
      [] e.k = "Call" -> e.args
      [] e.k = "Block" -> PanicStmtNodes(e.stmts)
      [] e.k = "If" -> <<e.cond>> \o PanicStmtNodes(e.then_branch) \o e.else_branch
      [] e.k = "Match" -> <<e.expr>> \o e.arms
      [] OTHER -> <<>>

RECURSIVE PreOrder(_)
\* Depth-first, a node before its children.
PreOrder(e) == <<e>> \o Flatten([i \in 1..Len(PanicKids(e)) |-> PreOrder(PanicKids(e)[i])])

\* A matched occurrence: panic!, .unwrap() or .expect().
IsPanicSite(e) ==
    \/ e.k = "Macro" /\ e.path = <<"panic">>
    \/ e.k = "MethodCall" /\ e.method \in {"unwrap", "expect"}

PanicSiteType(e) == IF e.k = "Macro" THEN "panic!" ELSE e.method

\* The matched occurrences of a function body, in depth-first order.
PanicSitesOf(stmts) ==
    SelectSeq(Flatten([i \in 1..Len(PanicStmtNodes(stmts)) |-> PreOrder(PanicStmtNodes(stmts)[i])]),
              IsPanicSite)

\* <<function name, kind>> of every matched occurrence of the file: functions in
\* declaration order, occurrences depth-first.
MatchedPanicSites(src) ==
    Flatten([i \in 1..Len(ImplFns(src)) |->
        LET f == ImplFns(src)[i]
            sites == PanicSitesOf(f.body)
        IN  [j \in 1..Len(sites) |-> <<f.name, PanicSiteType(sites[j])>>]])

(***************************************************************************)
(* Claims: the panic detector.                                             *)
(***************************************************************************)
\* C10: after scan_panics, the issues are, one for one and in order, the matched
\* occurrences of panic!, .unwrap() and .expect(): functions in declaration order,
\* depth-first within a body, each issue tagged with the enclosing function's
\* name, k occurrences in a function giving k issues.
C10_OneIssuePerOccurrenceInOrder ==
    \A issues \in ResultsOf("scan_panics") :
        LET sites == MatchedPanicSites(source)
        IN  /\ Len(issues) = Len(sites)
            /\ \A i \in 1..Len(issues) :
                  /\ issues[i].function_name = sites[i][1]
                  /\ issues[i].issue_type = sites[i][2]
                  /\ issues[i].location = sites[i][1]
            /\ source = TestScanPanicsSource =>
                  /\ Len(issues) = 3
                  /\ {issues[i].issue_type : i \in 1..Len(issues)} = {"panic!", "unwrap", "expect"}

\* Two occurrences of one kind in one function, and an issue for each.
C10_Witness ==
    \E issues \in ResultsOf("scan_panics") :
        \E i, j \in 1..Len(issues) : i < j /\ issues[i] = issues[j]

\* The functions of a file, free functions and impl methods, in declaration order.
AllFns(src) ==
    Flatten([i \in 1..Len(src.items) |->
        CASE src.items[i].k = "Fn" -> <<src.items[i]>>
          [] src.items[i].k = "Impl" ->
                SelectSeq(src.items[i].items, LAMBDA it : it.k = "ImplFn")
          [] OTHER -> <<>>])

\* <<function name, kind>> of every panic!, .unwrap() and .expect() found in the
\* body of any function of the file by descending through blocks, if/else
\* branches, match arms, call arguments, method-call receivers and arguments.
PanicSitesOfFile(src) ==
    Flatten([i \in 1..Len(AllFns(src)) |->
        LET f == AllFns(src)[i]
            sites == PanicSitesOf(f.body)
        IN  [j \in 1..Len(sites) |-> <<f.name, PanicSiteType(sites[j])>>]])

\* C11: after scan_panics, every panic!, .unwrap() and .expect() occurring in the
\* body of any function of the file, free function or impl method, at any depth
\* of blocks, if/else branches, match arms, call arguments and method-call
\* receivers or arguments, has its issue: for each function name and kind there
\* are as many issues as occurrences.
C11_EveryOccurrenceReported ==
    \A issues \in ResultsOf("scan_panics") :
        LET sites == PanicSitesOfFile(source)
        IN  \A site \in Range(sites) :
                Occurrences([i \in 1..Len(issues) |->
                                <<issues[i].function_name, issues[i].issue_type>>], site)
                    = Occurrences(sites, site)

(***************************************************************************)
(* The whole facade: every detector method on one Analyzer, each call with *)
(* or without a panic in its traversal.                                    *)
(***************************************************************************)
ScanGasEstimation ==
    \E fault \in BOOLEAN :
        Record("scan_gas_estimation", fault, scan_gas_estimation(source, fault))

\* A contract with an unguarded storage write, arithmetic, a panic, two pairs of
\* colliding keys and a persisted-layout struct.
FacadeContract ==
    ParsedFile(<<
        ItemConst("KEY1", LitStr("a"), 1),
        ItemConst("KEY2", LitStr("a"), 2),
        ItemStruct(<<Attr("Path", <<"contracttype">>)>>, "State", "Named",
                   <<TypeNamed("Bytes"), TypeNamed("u64")>>),
        ItemImpl(<<
            ImplItemFn("set_data", "pub", 2,
                <<StmtLocal(<<>>, <<At(ExprMacro(<<"symbol_short">>, <<TokStr("b")>>), 10)>>),
                  StmtLocal(<<TypeNamed("Symbol")>>,
                            <<At(ExprMacro(<<"symbol_short">>, <<TokStr("b")>>), 11)>>),
                  StmtExpr(MethodCall(StorageRecv("persistent"), "set",
                      <<Ident("k"), Binary("+", At(Ident("a"), 12), At(Ident("b"), 12))>>)),
                  StmtExpr(MethodCall(Ident("x"), "unwrap", <<>>))>>) >>) >>)

FacadeSources == {Unparsable, FacadeContract, TestScanPanicsSource}

FacadeConfigs ==
    {DefaultConfig, [ledger_limit |-> 64, approaching_threshold |-> 80, strict_mode |-> FALSE]}

InitFacade ==
    /\ config \in FacadeConfigs
    /\ source \in FacadeSources
    /\ calls = <<>>
    /\ runs = <<>>
    /\ pool = <<>>
    /\ file = <<>>

NextFacade ==
    \/ ScanAuthGaps
    \/ ScanPanics
    \/ ScanArithmeticOverflow
    \/ AnalyzeLedgerSize
    \/ ScanStorageCollisions
    \/ ScanGasEstimation

SpecFacade == InitFacade /\ [][NextFacade]_vars

\* What a detector returns on a new Analyzer of this configuration for this
\* source, when nothing fails.
FreshResults(detector) ==
    CASE detector = "scan_auth_gaps" -> {scan_auth_gaps_impl(source)}
      [] detector = "scan_panics" -> {scan_panics_impl(source)}
      [] detector = "scan_arithmetic_overflow" -> {scan_arithmetic_overflow_impl(source)}
      [] detector = "analyze_ledger_size" -> {analyze_ledger_size_impl(config, source)}
      [] detector = "scan_storage_collisions" ->
           {scan_storage_collisions_impl(source, order) :
               order \in IterationOrders(DOMAIN storage_visited(source).keys)}
      [] detector = "scan_gas_estimation" -> {scan_gas_estimation_impl(source)}

(***************************************************************************)
(* Claims: failure isolation.                                              *)
(***************************************************************************)
\* C9: for each of the six detector methods, a call whose source does not parse
\* or whose traversal panics returns the empty list; a call in which nothing
\* fails returns, whatever failed in the calls before it, what the detector
\* returns on a new Analyzer; and no call changes the configuration.
C9_FailureIsolation ==
    /\ [](\A i \in 1..Len(calls) :
            /\ (calls[i].fault \/ ~source.parsed) => calls[i].result = <<>>
            /\ ~calls[i].fault => calls[i].result \in FreshResults(calls[i].detector))
    /\ [][config' = config]_vars

\* A call that panicked, then a call of another detector that reports findings.
C9_Witness ==
    \E i, j \in 1..Len(calls) :
        /\ i < j
        /\ calls[i].fault
        /\ calls[i].result = <<>>
        /\ ~calls[j].fault
        /\ calls[j].result # <<>>

(***************************************************************************)
(* Generated sources for the complexity analyzer: one function whose body  *)
(* is a tower of nested constructs, a chain of operators, a match, or a    *)
(* multi-line literal, beside use items.                                   *)
(***************************************************************************)
\* Height of a tower of one construct.
MaxNest == 5
\* Operators in a chain.
MaxOps == 11
\* Arms of a match.
MaxArms == 3
\* Parameters of a signature.
MaxParams == 6

CxWrappers == Wrappers \cup {"WhileBody", "LoopBody", "NestedFn", "Operand"}

CxWrap(w, e) ==
    CASE w = "WhileBody" -> While(Ident("c"), <<StmtExpr(e)>>)
      [] w = "LoopBody" -> Loop(<<StmtExpr(e)>>)
      [] w = "NestedFn" -> Block(<<StmtItem(ItemFn("inner", "inherited", 0, <<StmtExpr(e)>>))>>)
      [] w = "Operand" -> Binary("||", Ident("a"), e)
      [] OTHER -> Wrap(w, e)

RECURSIVE Tower(_, _, _)
\* e under n wrappers of one kind.
Tower(w, n, e) == IF n = 0 THEN e ELSE CxWrap(w, Tower(w, n - 1, e))

\* A chain of n operators, && alternating with a second operator.
LogicChain(n, second) ==
    ChainExpr([i \in 1..n |-> IF i % 2 = 1 THEN "&&" ELSE second], Ident("a"), Ident("b"), 1)

CxLeaves ==
    { Ident("x"),
      If(Binary("&&", Ident("a"), Ident("b")), <<>>, <<>>),
      ExprMacro(<<"assert">>, <<TokIdent("a"), TokPunct("&&"), TokIdent("b")>>) }

CxBodies(nest, ops, arms) ==
    {<<StmtExpr(Tower(w, n, leaf))>> : w \in CxWrappers, n \in 0..nest, leaf \in CxLeaves}
    \cup {<<StmtExpr(CxWrap(w1, CxWrap(w2, leaf)))>> :
            w1 \in CxWrappers, w2 \in CxWrappers, leaf \in CxLeaves}
    \cup {<<StmtLocal(<<>>, <<LogicChain(n, second)>>)>> :
            n \in 1..ops, second \in {"&&", "||", "+"}}
    \cup {<<StmtExpr(Match(Ident("x"), [i \in 1..n |-> arm]))>> :
            n \in 0..arms, arm \in CxLeaves}
    \cup {<<StmtExpr(WithBreaks(LitStr("text"), n))>> :
            n \in {THRESHOLD_LOC - 1, THRESHOLD_LOC}}
    \cup {<<StmtExpr(Tower("IfThen", nest, WithBreaks(LitStr("text"), THRESHOLD_LOC))),
            StmtLocal(<<>>, <<LogicChain(ops, "||")>>)>>}
    \cup {<<>>}

CxFns(nest, ops, arms, params) ==
    {ImplItemFn(n, vis, inputs, body) :
        n \in {"f"}, vis \in Visibilities, inputs \in {0, params - 1, params},
        body \in CxBodies(nest, ops, arms)}
    \cup {ItemFn("f", vis, params, body) :
            vis \in Visibilities, body \in CxBodies(nest, ops, arms)}

ComplexitySources(nest, ops, arms, params) ==
    {ParsedFile(<<IF f.k = "ImplFn" THEN ItemImpl(<<f>>) ELSE f>>) :
        f \in CxFns(nest, ops, arms, params)}
    \cup {ParsedFile(<<ItemUse, ItemExternCrate,
                       ItemFn("g", "pub", 1, <<StmtExpr(If(Ident("c"), <<>>, <<>>))>>),
                       ItemImpl(<<ImplItemFn("f", "inherited", 2, <<>>),
                                  ImplItemFn("f", "pub", params, <<StmtExpr(Loop(<<>>))>>)>>)>>)}

AnalyzeComplexity ==
    Record("analyze_complexity", FALSE, analyze_complexity(source, "contract.rs"))

InitComplexity ==
    /\ config = DefaultConfig
    /\ source \in ComplexitySources(MaxNest, MaxOps, MaxArms, MaxParams)
    /\ calls = <<>>
    /\ runs = <<>>
    /\ pool = <<>>
    /\ file = <<>>

NextComplexity == AnalyzeComplexity

SpecComplexity == InitComplexity /\ [][NextComplexity]_vars

\* The functions the analyzer reports: public free functions and every method
\* of an impl block, in declaration order.
AnalysedFns(src) == SelectSeq(AllFns(src), LAMBDA f : f.k = "ImplFn" \/ f.vis = "pub")

\* The expressions a block holds directly; a function defined inside the block
\* stands for its body.
CxStmtNodes(stmts) ==
    Flatten([i \in 1..Len(stmts) |->
        CASE stmts[i].k = "Expr" -> <<stmts[i].expr>>
          [] stmts[i].k = "Local" -> stmts[i].init
          [] stmts[i].k = "Item" /\ stmts[i].item.k = "Fn" -> <<Block(stmts[i].item.body)>>
          [] OTHER -> <<>>])

CxKids(e) ==
    CASE e.k = "Call" -> <<e.func>> \o e.args
      [] e.k = "MethodCall" -> <<e.receiver>> \o e.args
      [] e.k = "Block" -> CxStmtNodes(e.stmts)
      [] e.k = "If" -> <<e.cond>> \o CxStmtNodes(e.then_branch) \o e.else_branch
      [] e.k = "Match" -> <<e.expr>> \o e.arms
      [] e.k = "Binary" -> <<e.left, e.right>>
      [] e.k = "ForLoop" -> <<e.expr>> \o CxStmtNodes(e.body)
      [] e.k = "While" -> <<e.cond>> \o CxStmtNodes(e.body)
      [] e.k = "Loop" -> CxStmtNodes(e.body)
      [] e.k = "Closure" -> <<e.body>>
      [] e.k \in {"Reference", "Try"} -> <<e.expr>>
      [] OTHER -> <<>>

RECURSIVE CxNodes(_)
\* e and every expression below it, each occurrence once.
CxNodes(e) == <<e>> \o Flatten([i \in 1..Len(CxKids(e)) |-> CxNodes(CxKids(e)[i])])

BodyNodes(stmts) ==
    Flatten([i \in 1..Len(CxStmtNodes(stmts)) |-> CxNodes(CxStmtNodes(stmts)[i])])

RECURSIVE SumSeq(_)
SumSeq(ns) == IF ns = <<>> THEN 0 ELSE Head(ns) + SumSeq(Tail(ns))

\* How many nodes of the list are of the kinds named.
CountKinds(nodes, kinds) == Len(SelectSeq(nodes, LAMBDA e : e.k \in kinds))

\* What the matches of the list add: arms - 1 each, nothing for fewer than two arms.
ExtraArms(nodes) ==
    LET matches == SelectSeq(nodes, LAMBDA e : e.k = "Match" /\ Len(e.arms) > 1)
    IN  SumSeq([i \in 1..Len(matches) |-> Len(matches[i].arms) - 1])

ShortCircuits(nodes) ==
    Len(SelectSeq(nodes, LAMBDA e : e.k = "Binary" /\ e.op \in {"&&", "||"}))

(***************************************************************************)
(* Claims: the complexity analyzer.                                        *)
(***************************************************************************)
\* C13: after analyze_complexity, each analysed function's cyclomatic_complexity
\* is 1 + the number of if expressions + the arms beyond the first of every
\* match + the number of for, while and loop expressions + the number of
\* closures + the number of && and || operators, counted over the whole body at
\* every nesting level; it is never below 1.
C13_CyclomaticComplexity ==
    \A m \in ResultsOf("analyze_complexity") :
        LET fns == AnalysedFns(source)
        IN  /\ Len(m.functions) = Len(fns)
            /\ \A i \in 1..Len(fns) :
                  LET nodes == BodyNodes(fns[i].body)
                  IN  /\ m.functions[i].name = fns[i].name
                      /\ m.functions[i].cyclomatic_complexity =
                            1 + CountKinds(nodes, {"If"}) + ExtraArms(nodes)
                              + CountKinds(nodes, {"ForLoop", "While", "Loop"})
                              + CountKinds(nodes, {"Closure"}) + ShortCircuits(nodes)
                      /\ m.functions[i].cyclomatic_complexity >= 1

\* A match of one arm whose arm is an if on a && b: the match adds nothing, the
\* if and the operator inside it one each.
C13_Witness ==
    \E m \in ResultsOf("analyze_complexity") :
        \E i \in 1..Len(m.functions) :
            LET nodes == BodyNodes(AnalysedFns(source)[i].body)
            IN  /\ CountKinds(nodes, {"Match"}) = 1
                /\ ExtraArms(nodes) = 0
                /\ CountKinds(nodes, {"If"}) = 1
                /\ ShortCircuits(nodes) = 1
                /\ m.functions[i].cyclomatic_complexity = 3

\* The warning of one metric: present when the value is above the threshold.
WarningIf(metric, value, threshold) ==
    IF value > threshold THEN <<<<metric, value, threshold>>>> ELSE <<>>

Newline == "\n"
Space == " "

RECURSIVE split_lines(_, _)
split_lines(text, cur) ==
    IF text = <<>> THEN (IF cur = <<>> THEN <<>> ELSE <<cur>>)
    ELSE IF Head(text) = Newline THEN <<cur>> \o split_lines(Tail(text), <<>>)
    ELSE split_lines(Tail(text), Append(cur, Head(text)))

\* str::lines(): the pieces between line feeds; a final line feed opens no line.
lines(text) == split_lines(text, <<>>)

RECURSIVE trim_start(_)
trim_start(line) ==
    IF line # <<>> /\ Head(line) = Space THEN trim_start(Tail(line)) ELSE line

RECURSIVE trim_end(_)
trim_end(line) ==
    IF line # <<>> /\ line[Len(line)] = Space
    THEN trim_end(SubSeq(line, 1, Len(line) - 1)) ELSE line

\* A snippet that keeps the trailing blanks of its line.
trim_start_only(line) == trim_start(line)

\* str::trim()
trim(line) == trim_end(trim_start(line))

\* Regex::new: <<re>> for Ok(re), <<>> for Err.
RegexNew(pattern) == IF "(" \in Range(pattern) THEN <<>> ELSE <<pattern>>

\* re.find(line).is_some(): the pattern matches at some position of the line.
re_find(re, line) ==
    \E start \in 0..(Len(line) - Len(re)) :
        \A i \in 1..Len(re) : re[i] = "." \/ re[i] = line[start + i]

RECURSIVE matches_of_lines(_, _, _, _)
\* for (line_no, line) in source.lines().enumerate(), from line_no on
matches_of_lines(rule, re, ls, line_no) ==
    IF line_no >= Len(ls) THEN <<>>
    ELSE LET line == ls[line_no + 1]
             line_num == line_no + 1
             here == IF re_find(re, line)
                     THEN <<[rule_name |-> rule.name, line |-> line_num, snippet |-> trim(line)]>>
                     ELSE <<>>
         IN  here \o matches_of_lines(rule, re, ls, line_no + 1)

RECURSIVE matches_of_rules(_, _)
matches_of_rules(text, rules) ==
    IF rules = <<>> THEN <<>>
    ELSE LET rule == Head(rules)
             re == RegexNew(rule.pattern)
             here == IF re = <<>> THEN <<>> \* Err(_) => continue
                     ELSE matches_of_lines(rule, re[1], lines(text), 0)
         IN  here \o matches_of_rules(text, Tail(rules))

analyze_custom_rules(text, rules) == matches_of_rules(text, rules)

\* Characters of a generated text and its greatest length.
MaxText == 4
TextChars == {"a", Space, Newline}
\* Rules in a generated rule list.
MaxRules == 2

RulePatterns == {<<"a">>, <<"a", "a">>, <<".">>, <<"(">>, <<"a", "(">>, <<>>}

CustomRule(name, pattern) == [name |-> name, pattern |-> pattern]

CustomRules == {CustomRule("n", p) : p \in RulePatterns} \cup {CustomRule("m", <<"a">>)}

\* A configuration holding the given rules.
ConfigWithRules(rules) ==
    [x \in DOMAIN DefaultConfig \cup {"custom_rules"} |->
        IF x = "custom_rules" THEN rules ELSE DefaultConfig[x]]

AnalyzeCustomRules ==
    Record("analyze_custom_rules", FALSE, analyze_custom_rules(source, config.custom_rules))

InitRules ==
    /\ config \in {ConfigWithRules(rules) : rules \in SeqsUpTo(CustomRules, MaxRules)}
    /\ source \in SeqsUpTo(TextChars, MaxText)
    /\ calls = <<>>
    /\ runs = <<>>
    /\ pool = <<>>
    /\ file = <<>>

NextRules == AnalyzeCustomRules

SpecRules == InitRules /\ [][NextRules]_vars

\* The 1-based numbers of the source lines a pattern matches, ascending.
MatchedLines(text, pattern) ==
    SelectSeq([i \in 1..Len(lines(text)) |-> i], LAMBDA i : re_find(pattern, lines(text)[i]))

\* snippet is line without the blanks at its two ends.
IsTrimmed(snippet, line) ==
    /\ snippet = <<>> \/ (snippet[1] # Space /\ snippet[Len(snippet)] # Space)
    /\ \E lead \in 0..Len(line) :
          /\ lead + Len(snippet) <= Len(line)
          /\ snippet = SubSeq(line, lead + 1, lead + Len(snippet))
          /\ \A i \in 1..Len(line) :
                (i <= lead \/ i > lead + Len(snippet)) => line[i] = Space

\* C15: after analyze_custom_rules, a rule whose pattern is not a valid regular
\* expression contributes nothing and the rules after it are still evaluated;
\* every valid rule contributes one match (its name, the 1-based line number,
\* the trimmed line) per source line its pattern matches, however often it
\* matches inside the line; the matches are in rule order, then line order.
C15_CustomRuleMatches ==
    \A matches \in ResultsOf("analyze_custom_rules") :
        LET rules == config.custom_rules
            per_rule == [r \in 1..Len(rules) |->
                           IF RegexNew(rules[r].pattern) = <<>> THEN <<>>
                           ELSE LET hit == MatchedLines(source, rules[r].pattern)
                                IN  [j \in 1..Len(hit) |->
                                        [rule_name |-> rules[r].name, line |-> hit[j]]]]
            expected == Flatten(per_rule)
        IN  /\ Len(matches) = Len(expected)
            /\ \A k \in 1..Len(expected) :
                  /\ matches[k].rule_name = expected[k].rule_name
                  /\ matches[k].line = expected[k].line
                  /\ IsTrimmed(matches[k].snippet, lines(source)[expected[k].line])

\* An invalid rule stands before a valid one; the valid one matched a line
\* holding its pattern twice between blanks and recorded it once, trimmed.
C15_Witness ==
    \E matches \in ResultsOf("analyze_custom_rules") :
        /\ Len(config.custom_rules) = 2
        /\ RegexNew(config.custom_rules[1].pattern) = <<>>
        /\ config.custom_rules[2].pattern = <<"a">>
        /\ source = <<Space, "a", "a", Space>>
        /\ matches = <<[rule_name |-> config.custom_rules[2].name, line |-> 1,
                        snippet |-> <<"a", "a">>]>>

(***************************************************************************)
(* Several detector runs in flight on one Analyzer.  The detector methods  *)
(* take &self; what a run works on is its own input and the locals of its  *)
(* call (the ArithVisitor of scan_arithmetic_overflow_impl, the warnings   *)
(* list of analyze_ledger_size_impl).  A run advances one top-level item   *)
(* of its file per step, and the steps of different runs interleave.       *)
(***************************************************************************)
\* Runs in flight at the same time.
MaxRuns == 2

RunDetectors == {"scan_arithmetic_overflow", "analyze_ledger_size"}

IdleRun == [pc |-> "idle", detector |-> "none", fault |-> FALSE, next |-> 0,
            locals |-> <<>>, result |-> <<>>]

\* Locals kept once per detector on the Analyzer: every run of a detector works
\* on those of the first run of that detector still in flight.
locals_of_shared(r) ==
    LET peers == {q \in 1..MaxRuns :
                    runs[q].pc = "visit" /\ runs[q].detector = runs[r].detector}
    IN  runs[CHOOSE q \in peers : \A p \in peers : q <= p].locals

\* The locals a step of run r works on: those of its own call.

locals_of(r) == runs[r].locals

\* The entry of the method: parse the input, set up the locals.
BeginRun(r) ==
    /\ runs[r].pc = "idle"
    /\ \E detector \in RunDetectors :
          runs' = [runs EXCEPT ![r] =
              IF ~source[r].parsed
              THEN [@ EXCEPT !.pc = "done", !.detector = detector, !.result = <<>>]
              ELSE [@ EXCEPT !.pc = "visit", !.detector = detector, !.next = 1,
                             !.locals = IF detector = "scan_arithmetic_overflow"
                                        THEN ArithVisitorNew ELSE <<>>]]
    /\ UNCHANGED <<config, source, calls, pool, file>>

\* One top-level item of the file is visited.
VisitItem(r) ==
    /\ runs[r].pc = "visit"
    /\ runs[r].next <= Len(source[r].items)
    /\ LET item == source[r].items[runs[r].next]
       IN  runs' = [runs EXCEPT ![r] =
               [@ EXCEPT !.next = @ + 1,
                         !.locals = IF runs[r].detector = "scan_arithmetic_overflow"
                                    THEN arith_visit_items(<<item>>, locals_of(r))
                                    ELSE locals_of(r) \o ledger_warnings_of(config, <<item>>)]]
    /\ UNCHANGED <<config, source, calls, pool, file>>

\* The traversal is over: the method returns what its locals hold.
EndRun(r) ==
    /\ runs[r].pc = "visit"
    /\ runs[r].next > Len(source[r].items)
    /\ runs' = [runs EXCEPT ![r] =
           [@ EXCEPT !.pc = "done",
                     !.result = with_panic_guard(Returned(
                         IF runs[r].detector = "scan_arithmetic_overflow"
                         THEN locals_of(r).issues ELSE locals_of(r)))]]
    /\ UNCHANGED <<config, source, calls, pool, file>>

\* The traversal panics: the guard turns the panic into the empty result.
PanicRun(r) ==
    /\ runs[r].pc = "visit"
    /\ runs' = [runs EXCEPT ![r] =
           [@ EXCEPT !.pc = "done", !.fault = TRUE, !.result = with_panic_guard(Panicked)]]
    /\ UNCHANGED <<config, source, calls, pool, file>>

ConcurrentInputs ==
    { Unparsable,
      ParsedFile(<<ItemImpl(<<ImplItemFn("f", "pub", 2,
                                 <<StmtExpr(Binary("+", Ident("a"), Ident("b")))>>)>>),
                   ItemImpl(<<ImplItemFn("f", "pub", 2,
                                 <<StmtExpr(Binary("+", Ident("a"), Ident("b")))>>),
                              ImplItemFn("g", "pub", 2,
                                 <<StmtExpr(Binary("-", Ident("a"), Ident("b")))>>)>>)>>),
      ParsedFile(<<ItemFn("g", "pub", 2, <<StmtExpr(Binary("*", Ident("a"), Ident("b")))>>),
                   ItemFn("f", "pub", 2, <<StmtExpr(Binary("+=", Ident("a"), Ident("b")))>>)>>),
      ParsedFile(<<ItemEnum(<<Attr("Path", <<"contracttype">>)>>, "Key",
                            <<Variant("Unnamed", <<TypeNamed("Bytes")>>)>>),
                   ItemStruct(<<Attr("Path", <<"contracttype">>)>>, "Data", "Named",
                              <<TypeNamed("Bytes")>>)>>) }

InitConcurrent ==
    /\ config = [DefaultConfig EXCEPT !.ledger_limit = 50]
    /\ source \in [1..MaxRuns -> ConcurrentInputs]
    /\ calls = <<>>
    /\ runs = [r \in 1..MaxRuns |-> IdleRun]
    /\ pool = <<>>
    /\ file = <<>>

NextConcurrent ==
    \E r \in 1..MaxRuns : BeginRun(r) \/ VisitItem(r) \/ EndRun(r) \/ PanicRun(r)

SpecConcurrent == InitConcurrent /\ [][NextConcurrent]_vars

\* What the run returns when it is the only one: the method applied to its input.
AloneResult(detector, input) ==
    IF detector = "scan_arithmetic_overflow" THEN scan_arithmetic_overflow_impl(input)
    ELSE analyze_ledger_size_impl(config, input)

\* C16: with several detector runs interleaved on one Analyzer, each on its own
\* input, a run that ends returns the findings it returns when run alone; a
\* step of one run changes nothing of another run; the configuration and the
\* inputs are never written.
C16_InterleavedRunsIndependent ==
    /\ [](\A r \in 1..MaxRuns :
            (runs[r].pc = "done" /\ ~runs[r].fault) =>
                runs[r].result = AloneResult(runs[r].detector, source[r]))
    /\ [][/\ config' = config
          /\ source' = source
          /\ Cardinality({r \in 1..MaxRuns : runs'[r] # runs[r]}) <= 1]_vars

\* Two runs are both in the middle of their files, each holding findings of its
\* own.
C16_Witness ==
    /\ runs[1].pc = "visit" /\ runs[1].next = 2
    /\ runs[2].pc = "visit" /\ runs[2].next = 2
    /\ runs[1].detector = "scan_arithmetic_overflow"
    /\ runs[1].locals.issues # <<>>
    /\ runs[2].detector = "analyze_ledger_size"
    /\ runs[2].locals # <<>>

(***************************************************************************)
(* Token arithmetic (contracts/kani-poc): transfer_pure, mint_pure and     *)
(* burn_pure on i128 balances.  The i128 of the code is kept as a signed   *)
(* integer type of 31 bits, so that its two ends and the checked_*         *)
(* failures at them are within the checker's integers.                     *)
(***************************************************************************)
I128_MAX == 1073741823
I128_MIN == (-I128_MAX) - 1

Ok(value) == [ok |-> TRUE, value |-> value]
Err(message) == [ok |-> FALSE, value |-> message]

\* i128::checked_add / checked_sub: <<x>> for Some(x), <<>> for None.
i128_checked_add(a, b) ==
    IF a + b > I128_MAX \/ a + b < I128_MIN THEN <<>> ELSE <<a + b>>

i128_checked_sub(a, b) ==
    IF a - b > I128_MAX \/ a - b < I128_MIN THEN <<>> ELSE <<a - b>>

\* A transfer that debits the sender and forgets to credit the receiver.
transfer_pure_no_credit(balance_from, balance_to, amount) ==
    IF amount <= 0 THEN Err("Amount must be positive")
    ELSE LET new_from == i128_checked_sub(balance_from, amount)
         IN  IF new_from = <<>> THEN Err("Insufficient balance")
             ELSE Ok(<<new_from[1], balance_to>>)

transfer_pure(balance_from, balance_to, amount) ==
    IF amount <= 0 THEN Err("Amount must be positive")
    ELSE LET new_from == i128_checked_sub(balance_from, amount)
         IN  IF new_from = <<>> THEN Err("Insufficient balance")
             ELSE LET new_to == i128_checked_add(balance_to, amount)
                  IN  IF new_to = <<>> THEN Err("Receiver balance overflow")
                      ELSE Ok(<<new_from[1], new_to[1]>>)

mint_pure(balance, amount) ==
    IF amount <= 0 THEN Err("Mint amount must be positive")
    ELSE LET sum == i128_checked_add(balance, amount)
         IN  IF sum = <<>> THEN Err("Mint overflow") ELSE Ok(sum[1])

burn_pure(balance, amount) ==
    IF amount <= 0 THEN Err("Burn amount must be positive")
    ELSE LET rest == i128_checked_sub(balance, amount)
         IN  IF rest = <<>> THEN Err("Insufficient balance to burn") ELSE Ok(rest[1])

\* The values the balances and the amount are drawn from: both ends of the
\* type, the neighbourhood of zero, and a few ordinary amounts.
TokenValues == {I128_MIN, I128_MIN + 1, -5, -1, 0, 1, 5, 10, I128_MAX - 10, I128_MAX - 1, I128_MAX}

TransferPure ==
    Record("transfer_pure", FALSE,
           transfer_pure(source.balance_from, source.balance_to, source.amount))

\* mint_pure on the receiving balance, burn_pure on the sending one.
MintPure == Record("mint_pure", FALSE, mint_pure(source.balance_to, source.amount))

BurnPure == Record("burn_pure", FALSE, burn_pure(source.balance_from, source.amount))

InitToken ==
    /\ config = DefaultConfig
    /\ source \in [balance_from : TokenValues, balance_to : TokenValues, amount : TokenValues]
    /\ calls = <<>>
    /\ runs = <<>>
    /\ pool = <<>>
    /\ file = <<>>

NextToken == TransferPure \/ MintPure \/ BurnPure

SpecToken == InitToken /\ [][NextToken]_vars

(***************************************************************************)
(* Claims: the token arithmetic.                                           *)
(***************************************************************************)
\* C17: for amount > 0, balance_from >= amount and 0 <= balance_to <= MAX - amount,
\* transfer_pure returns Ok((balance_from - amount, balance_to + amount)), whose
\* two balances add up to what they added up to before; for amount > 0 and
\* 0 <= balance <= MAX - amount mint_pure returns Ok(balance + amount); for
\* amount > 0 and balance >= amount burn_pure returns Ok(balance - amount); each
\* of the three returns Err for amount <= 0.
C17_TokenArithmetic ==
    LET f == source.balance_from
        t == source.balance_to
        a == source.amount
    IN  /\ \A r \in ResultsOf("transfer_pure") :
              /\ (a > 0 /\ f >= a /\ t >= 0 /\ t <= I128_MAX - a) =>
                    /\ r = Ok(<<f - a, t + a>>)
                    /\ r.value[1] + r.value[2] = f + t
              /\ a <= 0 => ~r.ok
        /\ \A r \in ResultsOf("mint_pure") :
              /\ (a > 0 /\ t >= 0 /\ t <= I128_MAX - a) => r = Ok(t + a)
              /\ a <= 0 => ~r.ok
        /\ \A r \in ResultsOf("burn_pure") :
              /\ (a > 0 /\ f >= a) => r = Ok(f - a)
              /\ a <= 0 => ~r.ok

\* A transfer of the sender's whole balance that fills the receiver up to MAX.
C17_Witness ==
    \E r \in ResultsOf("transfer_pure") :
        /\ source.amount > 0
        /\ source.balance_from = source.amount
        /\ source.balance_to = I128_MAX - source.amount
        /\ r = Ok(<<0, I128_MAX>>)

\* C18: for amount > 0 and balance_from < amount, whatever balance_to is,
\* transfer_pure returns an error.
C18_InsufficientBalanceFails ==
    \A r \in ResultsOf("transfer_pure") :
        (source.amount > 0 /\ source.balance_from < source.amount) => ~r.ok

(***************************************************************************)
(* AMM pool arithmetic (contracts/amm-pool): calculate_swap_output on u128 *)
(* amounts, and a pool whose reserves are updated by each successful swap. *)
(* The u128 of the code is kept as an unsigned integer type of 31 bits;    *)
(* the checked_* operations fail at its upper end as they do at u128::MAX. *)
(***************************************************************************)
U128_MAX == 2147483647

\* u128::checked_mul / checked_add / checked_div: <<x>> for Some(x), <<>> for None.
u128_checked_mul(a, b) ==
    IF a = 0 \/ b = 0 THEN <<0>>
    ELSE IF a > U128_MAX \div b THEN <<>> ELSE <<a * b>>

u128_checked_add(a, b) == IF a > U128_MAX - b THEN <<>> ELSE <<a + b>>

u128_checked_div(a, b) == IF b = 0 THEN <<>> ELSE <<a \div b>>

\* A quote at the spot price: the amount paid in is left out of the denominator.
calculate_swap_output_spot(reserve_in, reserve_out, amount_in, fee_bps) ==
    IF amount_in = 0 THEN Err("Amount in must be positive")
    ELSE IF reserve_in = 0 \/ reserve_out = 0 THEN Err("Reserves must be positive")
    ELSE IF fee_bps >= 10000 THEN Err("Fee must be less than 100%")
    ELSE LET amount_in_with_fee == u128_checked_mul(amount_in, 10000 - fee_bps)
         IN  IF amount_in_with_fee = <<>> THEN Err("Fee calculation overflow")
             ELSE LET numerator == u128_checked_mul(reserve_out, amount_in_with_fee[1])
                  IN  IF numerator = <<>> THEN Err("Numerator overflow")
                      ELSE LET scaled == u128_checked_mul(reserve_in, 10000)
                           IN  IF scaled = <<>> THEN Err("Denominator overflow")
                               ELSE LET denominator == scaled
                                    IN  IF denominator = <<>>
                                        THEN Err("Denominator addition overflow")
                                        ELSE IF denominator[1] = 0
                                        THEN Err("Denominator is zero")
                                        ELSE LET output == u128_checked_div(numerator[1],
                                                                            denominator[1])
                                             IN  IF output = <<>> THEN Err("Division error")
                                                 ELSE Ok(output[1])

calculate_swap_output(reserve_in, reserve_out, amount_in, fee_bps) ==
    IF amount_in = 0 THEN Err("Amount in must be positive")
    ELSE IF reserve_in = 0 \/ reserve_out = 0 THEN Err("Reserves must be positive")
    ELSE IF fee_bps >= 10000 THEN Err("Fee must be less than 100%")
    ELSE LET amount_in_with_fee == u128_checked_mul(amount_in, 10000 - fee_bps)
         IN  IF amount_in_with_fee = <<>> THEN Err("Fee calculation overflow")
             ELSE LET numerator == u128_checked_mul(reserve_out, amount_in_with_fee[1])
                  IN  IF numerator = <<>> THEN Err("Numerator overflow")
                      ELSE LET scaled == u128_checked_mul(reserve_in, 10000)
                           IN  IF scaled = <<>> THEN Err("Denominator overflow")
                               ELSE LET denominator == u128_checked_add(scaled[1], amount_in_with_fee[1])
                                    IN  IF denominator = <<>>
                                        THEN Err("Denominator addition overflow")
                                        ELSE IF denominator[1] = 0
                                        THEN Err("Denominator is zero")
                                        ELSE LET output == u128_checked_div(numerator[1],
                                                                            denominator[1])
                                             IN  IF output = <<>> THEN Err("Division error")
                                                 ELSE Ok(output[1])

\* Reserves, amounts and fees the swaps are drawn from.
ReserveValues == {0, 1, 2, 3, 10, 100, 1000}
AmountValues == {0, 1, 3, 10, 1000}
FeeValues == {0, 30, 9999, 10000}

\* One swap against the pool: the quote is computed from the current reserves
\* and, when it is Ok, the amount paid in joins reserve_in and the amount paid
\* out leaves reserve_out.
Swap ==
    /\ Len(calls) < MaxCalls
    /\ \E amount_in \in AmountValues, fee_bps \in FeeValues :
          LET result == calculate_swap_output(pool.reserve_in, pool.reserve_out,
                                              amount_in, fee_bps)
          IN  /\ calls' = Append(calls,
                     [detector |-> "calculate_swap_output", fault |-> FALSE,
                      args |-> [reserve_in |-> pool.reserve_in,
                                reserve_out |-> pool.reserve_out,
                                amount_in |-> amount_in, fee_bps |-> fee_bps],
                      result |-> result])
              /\ pool' = IF result.ok
                         THEN [reserve_in |-> pool.reserve_in + amount_in,
                               reserve_out |-> pool.reserve_out - result.value]
                         ELSE pool
    /\ UNCHANGED <<config, source, runs, file>>

InitPool ==
    /\ config = DefaultConfig
    /\ source = <<>>
    /\ calls = <<>>
    /\ runs = <<>>
    /\ pool \in [reserve_in : ReserveValues, reserve_out : ReserveValues]
    /\ file = <<>>

NextPool == Swap

SpecPool == InitPool /\ [][NextPool]_vars

\* The swaps made so far.
Swaps == SelectSeq(calls, LAMBDA c : c.detector = "calculate_swap_output")

(***************************************************************************)
(* Claims: the AMM swap.                                                   *)
(***************************************************************************)
\* C19: for reserve_in >= 1, reserve_out >= 1, amount_in >= 1 and fee_bps < 10000,
\* whenever calculate_swap_output returns Ok(output), output > 0 and output <=
\* reserve_out; it returns Err when amount_in = 0, when a reserve is 0 and when
\* fee_bps >= 10000.
C19_SwapOutputRange ==
    \A i \in 1..Len(Swaps) :
        LET a == Swaps[i].args
            r == Swaps[i].result
        IN  /\ (a.reserve_in >= 1 /\ a.reserve_out >= 1 /\ a.amount_in >= 1
                 /\ a.fee_bps < 10000 /\ r.ok) =>
                    (r.value > 0 /\ r.value <= a.reserve_out)
            /\ (a.amount_in = 0 \/ a.reserve_in = 0 \/ a.reserve_out = 0
                 \/ a.fee_bps >= 10000) => ~r.ok

\* C20: whenever calculate_swap_output(reserve_in, reserve_out, amount_in,
\* fee_bps) returns Ok(amount_out), (reserve_in + amount_in) * (reserve_out -
\* amount_out) >= reserve_in * reserve_out; and along any sequence of swaps
\* applied to the updated reserves the product of the reserves never decreases.
C20_ConstantProductNeverDecreases ==
    /\ [](\A i \in 1..Len(Swaps) :
            LET a == Swaps[i].args
                r == Swaps[i].result
            IN  r.ok => (a.reserve_in + a.amount_in) * (a.reserve_out - r.value)
                            >= a.reserve_in * a.reserve_out)
    /\ [][pool'.reserve_in * pool'.reserve_out >= pool.reserve_in * pool.reserve_out]_vars

\* Two successful swaps in a row, the second quoted on the reserves the first
\* one left, both paying out.
C20_Witness ==
    /\ Len(Swaps) = 2
    /\ Swaps[1].result.ok /\ Swaps[1].result.value > 0
    /\ Swaps[2].result.ok /\ Swaps[2].result.value > 0
    /\ Swaps[2].args.reserve_in = Swaps[1].args.reserve_in + Swaps[1].args.amount_in
    /\ Swaps[2].args.reserve_out = Swaps[1].args.reserve_out - Swaps[1].result.value
    /\ pool.reserve_in * pool.reserve_out
          > Swaps[1].args.reserve_in * Swaps[1].args.reserve_out

(***************************************************************************)
(* AMM liquidity arithmetic: calculate_liquidity_mint, calculate_liquidity_*)
(* burn and integer_sqrt.  integer_sqrt uses the plain + and / of u128: an *)
(* addition past the upper end panics in a build with overflow checks and  *)
(* wraps around in a build without them, and a division by zero panics in  *)
(* both.                                                                   *)
(***************************************************************************)
\* a + b on u128: <<sum>>, or <<>> where the build panics on overflow.
u128_add(a, b, overflow_checks) ==
    IF a <= U128_MAX - b THEN <<a + b>>
    ELSE IF overflow_checks THEN <<>>
    ELSE <<a - (U128_MAX - b) - 1>>

RECURSIVE sqrt_loop(_, _, _, _)
\* while y < x { x = y; y = (x + n / x) / 2; } x
sqrt_loop(n, x, y, overflow_checks) ==
    IF ~(y < x) THEN Returned(x)
    \* attempt to divide by zero
    ELSE IF y = 0 THEN Panicked
    ELSE LET sum == u128_add(y, n \div y, overflow_checks)
         \* attempt to add with overflow
         IN  IF sum = <<>> THEN Panicked
             ELSE sqrt_loop(n, y, sum[1] \div 2, overflow_checks)

\* Returned(root) when the function returns, Panicked when it unwinds.
integer_sqrt(n, overflow_checks) ==
    IF n = 0 THEN Returned(0)
    ELSE LET sum == u128_add(n, 1, overflow_checks)
         \* attempt to add with overflow
         IN  IF sum = <<>> THEN Panicked
             ELSE sqrt_loop(n, n, sum[1] \div 2, overflow_checks)

calculate_liquidity_mint(reserve_a, reserve_b, amount_a, amount_b, total_supply, overflow_checks) ==
    IF amount_a = 0 \/ amount_b = 0 THEN Err("Amounts must be positive")
    ELSE IF total_supply = 0
    THEN LET product == u128_checked_mul(amount_a, amount_b)
         IN  IF product = <<>> THEN Err("Initial liquidity overflow")
             ELSE LET liquidity == integer_sqrt(product[1], overflow_checks)
                  IN  IF liquidity.panicked THEN Panicked
                      ELSE IF liquidity.value = 0 THEN Err("Initial liquidity too small")
                      ELSE Ok(liquidity.value)
    ELSE IF reserve_a = 0 \/ reserve_b = 0 THEN Err("Reserves must be positive")
    ELSE LET scaled_a == u128_checked_mul(amount_a, total_supply)
         IN  IF scaled_a = <<>> THEN Err("Liquidity A calculation overflow")
             ELSE LET liquidity_a == u128_checked_div(scaled_a[1], reserve_a)
                  IN  IF liquidity_a = <<>> THEN Err("Division by reserve A")
                      ELSE LET scaled_b == u128_checked_mul(amount_b, total_supply)
                           IN  IF scaled_b = <<>> THEN Err("Liquidity B calculation overflow")
                               ELSE LET liquidity_b == u128_checked_div(scaled_b[1], reserve_b)
                                    IN  IF liquidity_b = <<>> THEN Err("Division by reserve B")
                                        ELSE LET liquidity ==
                                                    IF liquidity_a[1] < liquidity_b[1]
                                                    THEN liquidity_a[1] ELSE liquidity_b[1]
                                             IN  IF liquidity = 0
                                                 THEN Err("Liquidity amount too small")
                                                 ELSE Ok(liquidity)

calculate_liquidity_burn(reserve_a, reserve_b, liquidity, total_supply) ==
    IF liquidity = 0 THEN Err("Liquidity must be positive")
    ELSE IF total_supply = 0 THEN Err("Total supply is zero")
    ELSE IF liquidity > total_supply THEN Err("Liquidity exceeds total supply")
    ELSE LET scaled_a == u128_checked_mul(reserve_a, liquidity)
         IN  IF scaled_a = <<>> THEN Err("Amount A calculation overflow")
             ELSE LET amount_a == u128_checked_div(scaled_a[1], total_supply)
                  IN  IF amount_a = <<>> THEN Err("Division by total supply")
                      ELSE LET scaled_b == u128_checked_mul(reserve_b, liquidity)
                           IN  IF scaled_b = <<>> THEN Err("Amount B calculation overflow")
                               ELSE LET amount_b == u128_checked_div(scaled_b[1], total_supply)
                                    IN  IF amount_b = <<>> THEN Err("Division by total supply")
                                        ELSE IF amount_a[1] = 0 \/ amount_b[1] = 0
                                        THEN Err("Burn amounts too small")
                                        ELSE Ok(<<amount_a[1], amount_b[1]>>)

\* The values the five arguments are drawn from: zero, one, an ordinary amount,
\* a value past the square root of the upper end, and the upper end of the type.
MathValues == {0, 1, 1000, 65536, U128_MAX}

\* The quote for amount_a paid into reserve_a, at the fee held in total_supply.
SwapOutput ==
    Record("calculate_swap_output", FALSE,
           calculate_swap_output(source.reserve_a, source.reserve_b, source.amount_a,
                                 source.total_supply))

LiquidityMint ==
    \E overflow_checks \in BOOLEAN :
        Record("calculate_liquidity_mint", FALSE,
               calculate_liquidity_mint(source.reserve_a, source.reserve_b, source.amount_a,
                                        source.amount_b, source.total_supply, overflow_checks))

\* calculate_liquidity_burn with amount_a as the liquidity burnt.
LiquidityBurn ==
    Record("calculate_liquidity_burn", FALSE,
           calculate_liquidity_burn(source.reserve_a, source.reserve_b, source.amount_a,
                                    source.total_supply))

InitMath ==
    /\ config = DefaultConfig
    /\ source \in [reserve_a : MathValues, reserve_b : MathValues, amount_a : MathValues,
                   amount_b : MathValues, total_supply : MathValues]
    /\ calls = <<>>
    /\ runs = <<>>
    /\ pool = <<>>
    /\ file = <<>>

NextMath == SwapOutput \/ LiquidityMint \/ LiquidityBurn

SpecMath == InitMath /\ [][NextMath]_vars

(***************************************************************************)
(* Claims: the AMM arithmetic is total.                                    *)
(***************************************************************************)
\* C21: for every input of the unsigned range calculate_swap_output,
\* calculate_liquidity_mint and calculate_liquidity_burn return Ok or Err: none
\* of them overflows, divides by zero or panics, the integer square root of the
\* first liquidity provision included.
C21_PoolMathTotal ==
    \A detector \in {"calculate_swap_output", "calculate_liquidity_mint", "calculate_liquidity_burn"} :
        \A r \in ResultsOf(detector) : "ok" \in DOMAIN r

(***************************************************************************)
(* The init command (sanctifier-cli/src/commands/init.rs).  The file       *)
(* .sanctify.toml of the working directory is absent or holds a text; a    *)
(* text is the list of its lines, a line being a key with its value, the   *)
(* header of a [[custom_rules]] table, or something that is not TOML.      *)
(***************************************************************************)
Absent == [exists |-> FALSE, content |-> <<>>]
Present(content) == [exists |-> TRUE, content |-> content]

\* A value carries its TOML type and, under the name of the type, what it holds.
TomlValue(type, value) == [x \in {"type", type} |-> IF x = "type" THEN type ELSE value]
KeyValue(key, value) == [line |-> "KeyValue", key |-> key, value |-> value]
TableHeader(name) == [line |-> "TableHeader", key |-> name, value |-> [type |-> "None"]]
NotToml(text) == [line |-> "NotToml", key |-> text, value |-> [type |-> "None"]]

\* ConfigGenerator::generate_default_config
generate_default_config ==
    [ignore_paths |-> <<"target", ".git">>,
     enabled_rules |-> <<"auth_gaps", "panics", "arithmetic", "ledger_size">>,
     ledger_limit |-> 64000,
     strict_mode |-> FALSE,
     custom_rules |-> <<CustomRule("no_unsafe_block", "unsafe\\s*\\{"),
                        CustomRule("no_mem_forget", "std::mem::forget")>>,
     approaching_threshold |-> 80]

\* SanctifyConfig::default and the serde defaults of the fields.
default_config ==
    [ignore_paths |-> <<"target", ".git">>,
     enabled_rules |-> <<"auth_gaps", "panics", "arithmetic", "ledger_size", "events">>,
     ledger_limit |-> 64000,
     strict_mode |-> FALSE,
     custom_rules |-> <<>>,
     approaching_threshold |-> 80]

\* The type a field of SanctifyConfig is serialised as.
FieldType ==
    [ignore_paths |-> "Array", enabled_rules |-> "Array", ledger_limit |-> "Integer",
     approaching_threshold |-> "Float", strict_mode |-> "Boolean"]

\* The fields in the order the struct declares them; the tables of
\* custom_rules come last.
ValueFields ==
    <<"ignore_paths", "enabled_rules", "ledger_limit", "approaching_threshold", "strict_mode">>

RECURSIVE rules_to_lines(_)
rules_to_lines(rules) ==
    IF rules = <<>> THEN <<>>
    ELSE <<TableHeader("custom_rules"),
           KeyValue("name", TomlValue("String", Head(rules).name)),
           KeyValue("pattern", TomlValue("String", Head(rules).pattern))>>
         \o rules_to_lines(Tail(rules))

\* toml::to_string_pretty(config)
to_string_pretty(cfg) ==
    [i \in 1..Len(ValueFields) |->
        KeyValue(ValueFields[i], TomlValue(FieldType[ValueFields[i]], cfg[ValueFields[i]]))]
    \o rules_to_lines(cfg.custom_rules)

\* The lines of the table that starts at line `from`: up to the next header.
RECURSIVE table_lines(_, _)
table_lines(content, from) ==
    IF from > Len(content) \/ content[from].line = "TableHeader" THEN <<>>
    ELSE <<content[from]>> \o table_lines(content, from + 1)

\* The value a table gives to a key: <<value>>, or <<>> when the key is missing.
lookup(table, key) ==
    LET at == {i \in 1..Len(table) : table[i].key = key}
    IN  IF at = {} THEN <<>> ELSE <<table[CHOOSE i \in at : \A j \in at : i <= j].value>>

\* A rule table: name and pattern are required strings.
rule_of_table(table) ==
    LET name == lookup(table, "name")
        pattern == lookup(table, "pattern")
    IN  IF name = <<>> \/ pattern = <<>> THEN <<>>
        ELSE IF name[1].type # "String" \/ pattern[1].type # "String" THEN <<>>
        ELSE <<CustomRule(name[1].String, pattern[1].String)>>

\* A value of the type the field needs; usize takes no negative integer.
fits(field, value) ==
    /\ value.type = FieldType[field]
    /\ value.type = "Integer" => value.Integer >= 0

\* toml::from_str::<SanctifyConfig>(content): Ok(config) or Err.  A field that
\* is missing takes its serde default; a key or a table that names no field is
\* ignored.
from_str(content) ==
    LET headers == SelectSeq([i \in 1..Len(content) |-> i],
                             LAMBDA i : content[i].line = "TableHeader"
                                        /\ content[i].key = "custom_rules")
        root == table_lines(content, 1)
        tables == [h \in 1..Len(headers) |-> table_lines(content, headers[h] + 1)]
        rules == [h \in 1..Len(headers) |-> rule_of_table(tables[h])]
        duplicate(table) ==
            \E i, j \in 1..Len(table) : i < j /\ table[i].key = table[j].key
    IN  IF \E i \in 1..Len(content) : content[i].line = "NotToml"
        THEN Err("expected an equals")
        ELSE IF duplicate(root) \/ \E h \in 1..Len(headers) : duplicate(tables[h])
        THEN Err("duplicate key")
        ELSE IF \E i \in 1..Len(ValueFields) :
                  /\ lookup(root, ValueFields[i]) # <<>>
                  /\ ~fits(ValueFields[i], lookup(root, ValueFields[i])[1])
        THEN Err("invalid type")
        ELSE IF \E h \in 1..Len(headers) : rules[h] = <<>> THEN Err("missing field")
        ELSE Ok([x \in DOMAIN default_config |->
                    IF x = "custom_rules" THEN Flatten(rules)
                    ELSE IF lookup(root, x) = <<>> THEN default_config[x]
                    ELSE LET value == lookup(root, x)[1] IN value[value.type]])

\* FileWriter::config_exists
config_exists(f) == f.exists

\* FileWriter::write_config: Ok with the file written, or Err with the file as
\* it was when .sanctify.toml cannot be created.
write_config(cfg, f, writable) ==
    IF writable THEN [ok |-> TRUE, file |-> Present(to_string_pretty(cfg))]
    ELSE [ok |-> FALSE, file |-> f]

\* A command that never looks for an existing file.
exec_overwrite(force, f, writable) ==
    LET written == write_config(generate_default_config, f, writable)
    IN  IF written.ok THEN [status |-> "Ok", file |-> written.file]
        ELSE [status |-> "exit(1)", file |-> written.file]

\* exec(args): how the command ends and what it leaves of the file.
exec(force, f, writable) ==
    IF config_exists(f) /\ ~force THEN [status |-> "exit(1)", file |-> f]
    ELSE LET written == write_config(generate_default_config, f, writable)
         IN  IF written.ok THEN [status |-> "Ok", file |-> written.file]
             ELSE [status |-> "exit(1)", file |-> written.file]

\* Lines of a file found in the directory, and how many of them it has at most.
MaxLines == 2

FoundLines ==
    {NotToml("existing content"),
     KeyValue("ledger_limit", TomlValue("Integer", 100)),
     KeyValue("ledger_limit", TomlValue("String", "big")),
     KeyValue("strict_mode", TomlValue("Boolean", TRUE)),
     KeyValue("name", TomlValue("String", "mine")),
     TableHeader("custom_rules")}

FoundFiles ==
    {Absent, Present(to_string_pretty(generate_default_config))}
    \cup {Present(content) : content \in SeqsUpTo(FoundLines, MaxLines)}

\* One run of `sanctifier init [--force]` in the working directory.
InitCommand ==
    /\ Len(calls) < MaxCalls
    /\ \E force \in BOOLEAN, writable \in BOOLEAN :
          LET done == exec(force, file, writable)
          IN  /\ calls' = Append(calls,
                     [detector |-> "init", fault |-> FALSE,
                      args |-> [force |-> force, writable |-> writable, file |-> file],
                      result |-> done])
              /\ file' = done.file
    /\ UNCHANGED <<config, source, runs, pool>>

InitCli ==
    /\ config = DefaultConfig
    /\ source = <<>>
    /\ calls = <<>>
    /\ runs = <<>>
    /\ pool = <<>>
    /\ file \in FoundFiles

NextCli == InitCommand

SpecCli == InitCli /\ [][NextCli]_vars

\* The runs of the init command so far.
InitRuns == SelectSeq(calls, LAMBDA c : c.detector = "init")

(***************************************************************************)
(* Claims: the init command.                                               *)
(***************************************************************************)
\* C22: when .sanctify.toml exists and --force is not given, init leaves the
\* file's content unchanged and ends with a failure; when the file is absent
\* or --force is given (and the directory can be written to), init writes the
\* default configuration to .sanctify.toml, whatever the file held before, and
\* succeeds, and the written file parses back into a configuration: the one
\* that was generated.  A run changes no file but by such a write.
C22_InitCommand ==
    /\ \A i \in 1..Len(InitRuns) :
          LET a == InitRuns[i].args
              r == InitRuns[i].result
          IN  /\ (a.file.exists /\ ~a.force) => (r.file = a.file /\ r.status = "exit(1)")
              /\ ((~a.file.exists \/ a.force) /\ a.writable) =>
                    /\ r.status = "Ok"
                    /\ r.file.exists
                    /\ r.file.content = to_string_pretty(generate_default_config)
                    /\ from_str(r.file.content) = Ok(generate_default_config)
              /\ ((~a.file.exists \/ a.force) /\ ~a.writable) =>
                    (r.file = a.file /\ r.status = "exit(1)")
    /\ Len(InitRuns) > 0 => file = InitRuns[Len(InitRuns)].result.file

\* A first run creates the file, a second run without --force fails and
\* leaves it, and the file found before the first run with --force did not
\* parse.
C22_Witness ==
    /\ Len(InitRuns) = 2
    /\ InitRuns[1].args.force /\ InitRuns[1].args.file.exists
    /\ ~from_str(InitRuns[1].args.file.content).ok
    /\ InitRuns[1].result.status = "Ok"
    /\ ~InitRuns[2].args.force
    /\ InitRuns[2].result.status = "exit(1)"
    /\ from_str(file.content) = Ok(generate_default_config)

(***************************************************************************)
(* Claims: the mutation flag of the authorization-gap detector.            *)
(***************************************************************************)
\* The flags check_fn_body leaves at the end of the traversal of a body.
FlagsOf(body) == check_fn_body(body, [has_mutation |-> FALSE, has_auth |-> FALSE])

\* C23: at the end of a function's traversal has_mutation is true if and only
\* if the body contains a call of a method named set, update or remove whose
\* receiver expression (the receiver, not the arguments of the call) renders to
\* a text containing storage, persistent, temporary or instance; a set, update
\* or remove call on another receiver does not set it, and a get or has call
\* never does.
C23_HasMutationIffStorageReceiver ==
    \A gaps \in ResultsOf("scan_auth_gaps") :
        \A f \in Range(ImplFns(source)) :
            FlagsOf(f.body).has_mutation <=> MutatesAnywhere(f.body)


(***************************************************************************)
(* The arithmetic detector's function context: sources with function items *)
(* inside function bodies, closures, and expressions outside functions.    *)
(***************************************************************************)
\* How many statements a generated outer body holds.
MaxStmts == 3

ContextOp(op, line) == StmtExpr(Binary(op, At(Ident("a"), line), At(Ident("b"), line)))

\* fn inner() { a * b }, and fn inner() { fn innermost() { a -= b } a * b }
InnerFns(line) ==
    { ItemFn("inner", "inherited", 0, <<ContextOp("*", line)>>),
      ItemFn("inner", "inherited", 0,
             <<StmtItem(ItemFn("innermost", "inherited", 0, <<ContextOp("-=", line)>>)),
               ContextOp("*", line)>>) }

ContextStmts(line) ==
    {ContextOp(op, line) : op \in {"+", "-"}}
    \cup {StmtItem(f) : f \in InnerFns(line)}
    \cup {StmtExpr(Closure(Binary("+=", At(Ident("a"), line), At(Ident("b"), line))))}

OutsideFn(line) == ItemConst("K", Binary("+", At(LitInt(1), line), At(LitInt(2), line)), line)

ContextSources(n) ==
    LET bodies == SeqsUpTo(ContextStmts(10), n) \ {<<>>}
        outers == {ItemFn("outer", "pub", 0, body) : body \in bodies}
                  \cup {ItemImpl(<<ImplItemFn("outer", "pub", 0, body)>>) : body \in bodies}
    IN  {ParsedFile(<<f>>) : f \in outers}
        \cup {ParsedFile(<<f, OutsideFn(20)>>) : f \in outers}
        \cup {ParsedFile(<<OutsideFn(1), f>>) : f \in outers}

InitContext ==
    /\ config = DefaultConfig
    /\ source \in ContextSources(MaxStmts)
    /\ calls = <<>>
    /\ runs = <<>>
    /\ pool = <<>>
    /\ file = <<>>

NextContext == ScanArithmeticOverflow

SpecContext == InitContext /\ [][NextContext]_vars

RECURSIVE FnsWithin(_)
\* The function items that stand as statements of a body, and those within them.
FnsWithin(stmts) ==
    Flatten([i \in 1..Len(stmts) |->
        IF stmts[i].k = "Item" /\ stmts[i].item.k = "Fn"
        THEN <<stmts[i].item>> \o FnsWithin(stmts[i].item.body)
        ELSE <<>>])

\* Every function of a file: the free functions, the impl methods, and the
\* functions declared inside them.
FnsAtAnyDepth(src) ==
    Flatten([i \in 1..Len(FileFns(src)) |->
        <<FileFns(src)[i]>> \o FnsWithin(FileFns(src)[i].body)])

\* C24: the detector's context is the innermost function around an expression.
\* The issues of a scan are those of the pairs (f, op) where f is a function of
\* the file, top-level, impl method or declared inside another function, and op
\* an overflow-prone operator of a binary expression that f's body holds outside
\* the functions declared in it (closures included): an operation after a nested
\* function item goes to the outer function, an operation in a closure to the
\* enclosing function, an operation outside every function to nobody.  After the
\* whole file has been visited the context is empty.
C24_FunctionContext ==
    \A issues \in ResultsOf("scan_arithmetic_overflow") :
        /\ {<<issues[j].function_name, issues[j].operation>> : j \in 1..Len(issues)}
             = UNION {{<<f.name, op>> : op \in RiskyOps(f.body)} : f \in Range(FnsAtAnyDepth(source))}
        /\ arith_visit_items(source.items, ArithVisitorNew).current_fn = <<>>

\* An outer function holding a function item, then an addition, then a closure
\* with a compound assignment, followed by a constant whose value is a sum.
C24_Witness ==
    \E issues \in ResultsOf("scan_arithmetic_overflow") :
        /\ Len(source.items) = 2
        /\ source.items[2].k = "Const"
        /\ \E f \in Range(FileFns(source)) :
              /\ Len(f.body) = 3
              /\ f.body[1].k = "Item"
              /\ Len(f.body[1].item.body) = 2
              /\ f.body[2] = ContextOp("+", 10)
              /\ f.body[3].k = "Expr"
              /\ f.body[3].expr.k = "Closure"
        /\ {<<issues[j].function_name, issues[j].operation>> : j \in 1..Len(issues)}
             = {<<"innermost", "-=">>, <<"inner", "*">>, <<"outer", "+">>, <<"outer", "+=">>}


(***************************************************************************)
(* Type-size estimation: one type, standing as the field of a persisted    *)
(* struct, as the field of an enum variant and as the type of a local of a *)
(* public method, measured by the ledger-size and by the gas estimator.    *)
(***************************************************************************)
\* How deep the generated types nest.
MaxTypeDepth == 2

\* The value of the constant N that the generated files declare.
LengthOfN == 4

LeafTypes ==
    { TypeNamed("u32"), TypeNamed("i64"), TypeNamed("U128"),
      TypePath(<<"soroban_sdk", "Address">>, <<>>), TypeNamed("Symbol"),
      TypeNamed("Custom"), TypeOther }

\* Key types of the generated maps: Symbol, and the empty array [u32; 0].
KeyTypes == {TypeNamed("Symbol"), TypeArray(TypeNamed("u32"), LitInt(0))}

\* Array lengths: the literals 0 and 3, and the constant N.
ArrayLens == {LitInt(0), LitInt(3), Ident("N")}

RECURSIVE SizedTypes(_)
\* The types nested up to `depth` deep.
SizedTypes(depth) ==
    IF depth = 0 THEN LeafTypes
    ELSE LET below == SizedTypes(depth - 1)
         IN  LeafTypes
             \cup {TypePath(<<"Vec">>, <<TypeArg(t)>>) : t \in below}
             \cup {TypeNamed("Vec"), TypePath(<<"Vec">>, <<LifetimeArg>>)}
             \cup {TypePath(<<"Map">>, <<TypeArg(key), TypeArg(t)>>) :
                     key \in KeyTypes, t \in below}
             \cup {TypeNamed("Map"), TypePath(<<"Map">>, <<LifetimeArg>>)}
             \cup {TypePath(<<"Option">>, <<TypeArg(t)>>) : t \in below}
             \cup {TypeNamed("Option")}
             \cup {TypeArray(t, len) : t \in below, len \in ArrayLens}

Persisted == <<Attr("Path", <<"contracttype">>)>>

\* const N: usize = 4; struct Data { field: ty }  enum Key { V(ty) }
\* impl C { pub fn f() { let x: ty; } }, the local typed or not.
TypeSource(ty, typed) ==
    ParsedFile(<<ItemConst("N", At(LitInt(LengthOfN), 1), 1),
                 ItemStruct(Persisted, "Data", "Named", <<ty>>),
                 ItemEnum(Persisted, "Key", <<Variant("Unnamed", <<ty>>)>>),
                 ItemImpl(<<ImplItemFn("f", "pub", 0,
                     <<StmtLocal(IF typed THEN <<ty>> ELSE <<>>, <<>>)>>)>>)>>)

\* The type a generated file measures.
MeasuredType(src) == src.items[2].tys[1]

InitTypes ==
    /\ config = [ledger_limit |-> 0, approaching_threshold |-> 80, strict_mode |-> FALSE]
    /\ source \in {TypeSource(ty, typed) : ty \in SizedTypes(MaxTypeDepth), typed \in BOOLEAN}
    /\ calls = <<>>
    /\ runs = <<>>
    /\ pool = <<>>
    /\ file = <<>>

NextTypes == AnalyzeLedgerSize \/ ScanGasEstimation

SpecTypes == InitTypes /\ [][NextTypes]_vars

\* The length an array type declares: its literal, or the value of the constant
\* it names.
DeclaredLength(len) == IF len.k = "Lit" THEN len.value ELSE LengthOfN

RECURSIVE SizeTable(_, _)
\* The size table.  The 128-bit integers are u128, i128 and the SDK's U128 and
\* I128.  With as_stated, a map with type arguments always costs 16 + 2 * their
\* sum and an array always its length times its element; without, a map whose
\* type arguments sum to 0 costs 128 and an array whose length is not an integer
\* literal costs 64.
SizeTable(ty, as_stated) ==
    LET name == ty.segs[Len(ty.segs)]
        tys == [i \in 1..Len(ty.args) |-> ty.args[i].ty]
        sum == IF Len(tys) = 2 THEN SizeTable(tys[1], as_stated) + SizeTable(tys[2], as_stated)
               ELSE 0
        first_is_type == ty.args # <<>> /\ ty.args[1].k = "Type"
    IN  CASE ty.k = "Array" ->
               IF as_stated \/ ty.len.k = "Lit"
               THEN DeclaredLength(ty.len) * SizeTable(ty.elem, as_stated)
               ELSE 64
          [] ty.k = "Path" /\ name \in {"u32", "i32", "bool"} -> 4
          [] ty.k = "Path" /\ name \in {"u64", "i64"} -> 8
          [] ty.k = "Path" /\ name \in {"u128", "i128", "I128", "U128"} -> 16
          [] ty.k = "Path" /\ name = "Address" -> 32
          [] ty.k = "Path" /\ name \in {"Bytes", "BytesN", "String", "Symbol"} -> 64
          [] ty.k = "Path" /\ name = "Vec" ->
               IF first_is_type THEN 8 + SizeTable(tys[1], as_stated) ELSE 128
          [] ty.k = "Path" /\ name = "Map" ->
               IF first_is_type /\ (as_stated \/ sum > 0) THEN 16 + 2 * sum ELSE 128
          [] ty.k = "Path" /\ name = "Option" /\ first_is_type ->
               1 + SizeTable(tys[1], as_stated)
          [] ty.k = "Path" -> 32
          [] OTHER -> 8

\* The sizes a result of analyze_ledger_size reports for the struct Data and for
\* the enum Key agree with the table.
ReportsTable(warnings, as_stated) ==
    LET size == SizeTable(MeasuredType(source), as_stated)
    IN  /\ Len(WarningsFor(warnings, "Data")) = 1
        /\ WarningsFor(warnings, "Data")[1].estimated_size = size
        /\ Len(WarningsFor(warnings, "Key")) = 1
        /\ WarningsFor(warnings, "Key")[1].estimated_size = DISCRIMINANT_SIZE + size

\* C25, as stated: u32/i32/bool cost 4, u64/i64 8, the 128-bit integers 16,
\* Address 32, Bytes/BytesN/String/Symbol 64; Vec<T> costs 8 + size(T) and 128
\* without an element type; Map<K,V> costs 16 + 2*(size(K) + size(V)) and 128
\* without type arguments; Option<T> costs 1 + size(T); [T; n] costs n * size(T);
\* any other named type costs 32 and any other form 8; a type costs the same as a
\* struct field and as a variant field.
C25_TypeSizeTable ==
    \A warnings \in ResultsOf("analyze_ledger_size") : ReportsTable(warnings, TRUE)

\* C25, as the code has it: the same table, except that a map whose type
\* arguments sum to 0 costs 128 and that an array costs n * size(T) when its
\* length is the integer literal n and 64 when its length is any other expression.
C25_TypeSizeTableLiteralLengths ==
    \A warnings \in ResultsOf("analyze_ledger_size") : ReportsTable(warnings, FALSE)

\* Vec<[u32; N]> was measured: 8 + 64 for the struct, 4 more for the enum.
C25_Witness ==
    \E warnings \in ResultsOf("analyze_ledger_size") :
        /\ MeasuredType(source) =
              TypePath(<<"Vec">>, <<TypeArg(TypeArray(TypeNamed("u32"), Ident("N")))>>)
        /\ WarningsFor(warnings, "Data")[1].estimated_size = 72
        /\ WarningsFor(warnings, "Key")[1].estimated_size = 76


(***************************************************************************)
(* Generated sources for the gas estimator.                                *)
(***************************************************************************)
\* How many statements a generated body without loops holds.
MaxGasStmts == 2

\* How deep the generated loops nest.
MaxLoopDepth == 2

GasMethods ==
    {"get", "set", "has", "update", "remove", "require_auth", "require_auth_for_args", "len"}

GasMacros == {"vec", "map", "symbol_short", "String", "panic"}

GasSum == Binary("+", Ident("a"), Ident("b"))

\* Bodies of one statement: a call of each method, an invocation of each macro
\* as an expression and as a statement.
SingleCostBodies ==
    {<<StmtExpr(MethodCall(Ident("s"), m, <<>>))>> : m \in GasMethods}
    \cup {<<StmtLocal(<<>>, <<ExprMacro(<<name>>, <<>>)>>)>> : name \in GasMacros}
    \cup {<<StmtMacro(<<name>>, <<>>)>> : name \in GasMacros}

GasStmts ==
    { StmtExpr(GasSum),
      StmtExpr(Call(Ident("helper"), <<GasSum>>)),
      StmtExpr(MethodCall(Call(Ident("storage"), <<>>), "get", <<Ident("key")>>)),
      StmtExpr(MethodCall(Ident("admin"), "require_auth_for_args", <<Ident("args")>>)),
      StmtExpr(ExprMacro(<<"vec">>, <<>>)),
      StmtExpr(If(GasSum, <<StmtLocal(<<>>, <<ExprMacro(<<"symbol_short">>, <<>>)>>)>>, <<>>)),
      StmtLocal(<<>>, <<MethodCall(Ident("s"), "len", <<>>)>>),
      StmtLocal(<<TypeNamed("u64")>>, <<>>),
      StmtMacro(<<"panic">>, <<>>) }

\* Methods of the generated impl blocks: public or not, with one of three bodies.
GasFnChoices == [name : FnNames, vis : {"pub", "inherited"}, body : {1, 2, 3}]

GasFnOf(c) ==
    ImplItemFn(c.name, c.vis, 0,
        CASE c.body = 1 -> <<>>
          [] c.body = 2 -> <<StmtExpr(GasSum)>>
          [] c.body = 3 -> <<StmtLocal(<<>>, <<MethodCall(Ident("s"), "set", <<>>)>>)>>)

\* Headers of the generated loops: a name, a comparison.
LoopHeaders == {Ident("xs"), Binary("<", Ident("i"), Ident("n"))}

LoopsAround(bodies) ==
    {ForLoop(h, body) : h \in LoopHeaders, body \in bodies}
    \cup {While(h, body) : h \in LoopHeaders, body \in bodies}
    \cup {Loop(body) : body \in bodies}

RECURSIVE Loops(_)
\* The loops that nest exactly `depth` deep.
Loops(depth) ==
    IF depth = 1
    THEN LoopsAround({ <<>>,
                       <<StmtExpr(GasSum)>>,
                       <<StmtExpr(MethodCall(Ident("s"), "get", <<>>))>>,
                       <<StmtLocal(<<TypeNamed("u64")>>, <<>>)>>,
                       <<StmtExpr(ExprMacro(<<"vec">>, <<>>))>>,
                       <<StmtLocal(<<>>, <<GasSum>>), StmtExpr(GasSum)>> })
    ELSE LoopsAround({<<StmtExpr(l)>> : l \in Loops(depth - 1)}
                     \cup {<<StmtExpr(l), StmtExpr(GasSum)>> : l \in Loops(depth - 1)})

\* Bodies with one loop, alone or between other statements.
LoopBodies(depth) ==
    LET loops == UNION {Loops(d) : d \in 1..depth}
        around == {<<>>, <<StmtExpr(GasSum)>>}
    IN  {pre \o <<StmtExpr(l)>> \o post : pre \in around, post \in around, l \in loops}

GasSources(stmts, depth) ==
    {Unparsable}
    \cup {ParsedFile(<<ItemImpl(<<ImplItemFn("f", "pub", 0, body)>>)>>) :
            body \in SingleCostBodies \cup SeqsUpTo(GasStmts, stmts) \cup LoopBodies(depth)}
    \cup {ParsedFile(<<ItemImpl([i \in 1..Len(cs) |-> GasFnOf(cs[i])])>>) :
            cs \in SeqsUpTo(GasFnChoices, 2)}
    \cup {ParsedFile(<<ItemFn("free", "pub", 0, <<StmtExpr(GasSum)>>),
                       ItemImpl(<<GasFnOf(c)>>), ItemImpl(<<GasFnOf(d)>>)>>) :
            c \in GasFnChoices, d \in GasFnChoices}

InitGas ==
    /\ config = DefaultConfig
    /\ source \in GasSources(MaxGasStmts, MaxLoopDepth)
    /\ calls = <<>>
    /\ runs = <<>>
    /\ pool = <<>>
    /\ file = <<>>

NextGas == ScanGasEstimation

SpecGas == InitGas /\ [][NextGas]_vars

\* Whether an expression is a loop, and whether a body holds one.
IsLoop(e) == e.k \in {"ForLoop", "While", "Loop"}
HasLoop(body) == \E e \in ExprsOfBody(body) : IsLoop(e)

\* The price list of the contract for a method call and for a macro invocation.
StatedMethodCost(method) ==
    IF method \in {"get", "set", "has", "update", "remove"} THEN 1000
    ELSE IF method \in {"require_auth", "require_auth_for_args"} THEN 500
    ELSE 25

StatedMacroCost(path) ==
    IF path \in {<<"vec">>, <<"map">>} THEN 50 ELSE 10

RECURSIVE StatedOfExpr(_)
RECURSIVE StatedOfExprs(_)
RECURSIVE StatedOfStmts(_)
StatedOfExprs(es) == IF es = <<>> THEN 0 ELSE StatedOfExpr(Head(es)) + StatedOfExprs(Tail(es))

\* The instructions the price list gives an expression without loops: the
\* price of the node and those of the nodes below it.
StatedOfExpr(e) ==
    CASE e.k = "Binary" -> 5 + StatedOfExpr(e.left) + StatedOfExpr(e.right)
      [] e.k = "Call" -> 20 + StatedOfExpr(e.func) + StatedOfExprs(e.args)
      [] e.k = "MethodCall" ->
           StatedMethodCost(e.method) + StatedOfExpr(e.receiver) + StatedOfExprs(e.args)
      [] e.k = "Macro" -> StatedMacroCost(e.path)
      [] e.k = "Block" -> StatedOfStmts(e.stmts)
      [] e.k = "If" ->
           StatedOfExpr(e.cond) + StatedOfStmts(e.then_branch) + StatedOfExprs(e.else_branch)
      [] OTHER -> 0

StatedOfStmts(stmts) ==
    IF stmts = <<>> THEN 0
    ELSE LET stmt == Head(stmts)
             here == CASE stmt.k = "Expr" -> StatedOfExpr(stmt.expr)
                       [] stmt.k = "Local" -> 2 + StatedOfExprs(stmt.init)
                       [] stmt.k = "Macro" -> StatedMacroCost(stmt.path)
                       [] OTHER -> 0
         IN  here + StatedOfStmts(Tail(stmts))

\* The public methods of the impl blocks, in declaration order.
PublicMethods(src) == SelectSeq(AllFns(src), LAMBDA f : f.k = "ImplFn" /\ f.vis = "pub")

\* C26: estimate_contract returns one report per public method of an impl block,
\* in declaration order, and none for a private method or a free function; for a
\* body without loops estimated_instructions is 50 + 5 per binary operation + 20
\* per free-function call + 1000 per get/set/has/update/remove call, 500 per
\* require_auth or require_auth_for_args call, 25 per other method call + 2 per
\* local + 50 per vec!/map! and 10 per other macro invocation; every report has
\* at least 50 instructions and 32 bytes.
C26_GasReports ==
    \A reports \in ResultsOf("scan_gas_estimation") :
        LET fns == PublicMethods(source)
        IN  /\ Len(reports) = Len(fns)
            /\ \A i \in 1..Len(reports) :
                  /\ reports[i].function_name = fns[i].name
                  /\ reports[i].estimated_instructions >= 50
                  /\ reports[i].estimated_memory_bytes >= 32
                  /\ ~HasLoop(fns[i].body) =>
                        reports[i].estimated_instructions = 50 + StatedOfStmts(fns[i].body)


\* The local of the generated method.
MeasuredLocal(src) == src.items[4].items[1].body[1]

\* C27: a local declared with an explicit type adds to estimated_memory_bytes
\* the size that the ledger-size estimator's estimate_type_size gives for that
\* type, whatever the type is (Vec<T>, Map<K,V>, Option<T> and arrays included);
\* a local without an explicit type adds 8.
C27_LocalMemoryUsesLedgerTable ==
    \A reports \in ResultsOf("scan_gas_estimation") :
        /\ Len(reports) = 1
        /\ reports[1].estimated_memory_bytes =
              32 + (IF MeasuredLocal(source).typed # <<>>
                    THEN estimate_type_size(MeasuredLocal(source).typed[1])
                    ELSE 8)


\* What a new visitor counts on a list of statements.
EstimateOf(stmts) == gas_visit_block(stmts, GasVisitorNew)

\* The part of a loop that is not its body, as statements: the iterated
\* expression of a for, the condition of a while.
HeaderOf(l) ==
    CASE l.k = "ForLoop" -> <<StmtExpr(l.expr)>>
      [] l.k = "While" -> <<StmtExpr(l.cond)>>
      [] OTHER -> <<>>

\* A list of statements whose i-th statement, a loop, is replaced by the loop's header.
WithoutLoopBody(stmts, i) ==
    SubSeq(stmts, 1, i - 1) \o HeaderOf(stmts[i].expr) \o SubSeq(stmts, i + 1, Len(stmts))

\* The rule of the loops on the i-th statement of a list, a loop: the list
\* counts what it counts with the loop's body taken out, and 50 + 10 times the
\* instructions and 10 times the bytes of the body estimated from a new visitor.
LoopRule(stmts, i, instructions, memory) ==
    LET body == EstimateOf(stmts[i].expr.body)
        rest == EstimateOf(WithoutLoopBody(stmts, i))
    IN  /\ body.instruction_count >= 50
        /\ body.memory_bytes >= 32
        /\ instructions = rest.instruction_count + 50 + 10 * body.instruction_count
        /\ memory = rest.memory_bytes + 10 * body.memory_bytes

\* The positions of a list of statements that hold a loop.
LoopsAt(stmts) == {i \in 1..Len(stmts) : stmts[i].k = "Expr" /\ IsLoop(stmts[i].expr)}

\* C28: for a for, while or loop expression the body is estimated from a new
\* visitor, base 50 instructions and 32 bytes included, and the enclosing totals
\* grow by 50 + 10 * body.instructions and 10 * body.memory and by nothing else
\* for what the body holds; the same holds of a loop inside a loop's body, so
\* that its estimate is multiplied by 10 again; the kind of the loop changes
\* nothing.
C28_LoopsCostTenBodies ==
    \A reports \in ResultsOf("scan_gas_estimation") :
        \A j \in 1..Len(reports) :
            LET f == PublicMethods(source)[j]
            IN  /\ \A i \in LoopsAt(f.body) :
                      LoopRule(f.body, i, reports[j].estimated_instructions,
                               reports[j].estimated_memory_bytes)
                /\ \A l \in {e \in ExprsOfBody(f.body) : IsLoop(e)} :
                      /\ \A i \in LoopsAt(l.body) :
                            LoopRule(l.body, i, EstimateOf(l.body).instruction_count,
                                     EstimateOf(l.body).memory_bytes)
                      /\ \A kind \in LoopsAround({l.body}) :
                            EstimateOf(<<StmtExpr(kind)>> \o HeaderOf(l))
                                = EstimateOf(<<StmtExpr(l)>> \o HeaderOf(kind))

\* loop { loop { a + b } } alone in a method: the inner body is 55 and 32, the
\* inner loop 50 + 550 and 320 on top of the outer body's 50 and 32, the method
\* 50 + 50 + 6500 and 32 + 3520.
C28_Witness ==
    \E reports \in ResultsOf("scan_gas_estimation") :
        /\ Len(reports) = 1
        /\ PublicMethods(source)[1].body = <<StmtExpr(Loop(<<StmtExpr(Loop(<<StmtExpr(GasSum)>>))>>))>>
        /\ reports[1].estimated_instructions = 6600
        /\ reports[1].estimated_memory_bytes = 3552


(***************************************************************************)
(* The traversal of one function body by FnComplexityVisitor, step by      *)
(* step: runs holds the visit in progress, the constructs still to be      *)
(* entered and left, in syn's visiting order, and the visitor.             *)
(***************************************************************************)
DepthKinds == {"If", "Match", "ForLoop", "While", "Loop", "Closure"}

EnterOf(kind) == [at |-> "enter", kind |-> kind]
ExitOf(kind) == [at |-> "exit", kind |-> kind]

RECURSIVE StepsOfExpr(_)
RECURSIVE StepsOfExprs(_)
RECURSIVE StepsOfStmts(_)
StepsOfExprs(es) == IF es = <<>> THEN <<>> ELSE StepsOfExpr(Head(es)) \o StepsOfExprs(Tail(es))

\* The entries and exits of the constructs of an expression, in the order in
\* which syn's visit reaches them: a visit_expr_* override, or visit_block for a
\* block, is entered before the children are visited and left after them.
StepsOfExpr(e) ==
    LET below == CASE e.k = "If" ->
                        StepsOfExpr(e.cond) \o StepsOfStmts(e.then_branch)
                            \o StepsOfExprs(e.else_branch)
                   [] e.k = "Match" -> StepsOfExpr(e.expr) \o StepsOfExprs(e.arms)
                   [] e.k = "ForLoop" -> StepsOfExpr(e.expr) \o StepsOfStmts(e.body)
                   [] e.k = "While" -> StepsOfExpr(e.cond) \o StepsOfStmts(e.body)
                   [] e.k = "Loop" -> StepsOfStmts(e.body)
                   [] e.k = "Closure" -> StepsOfExpr(e.body)
                   [] e.k = "Block" -> StepsOfStmts(e.stmts)
                   [] e.k = "Binary" -> StepsOfExpr(e.left) \o StepsOfExpr(e.right)
                   [] e.k = "Call" -> StepsOfExpr(e.func) \o StepsOfExprs(e.args)
                   [] e.k = "MethodCall" -> StepsOfExpr(e.receiver) \o StepsOfExprs(e.args)
                   [] e.k \in {"Reference", "Try"} -> StepsOfExpr(e.expr)
                   [] OTHER -> <<>>
    IN  IF e.k \in DepthKinds \cup {"Block"}
        THEN <<EnterOf(e.k)>> \o below \o <<ExitOf(e.k)>>
        ELSE below

StepsOfStmts(stmts) ==
    IF stmts = <<>> THEN <<>>
    ELSE LET stmt == Head(stmts)
             here == CASE stmt.k = "Expr" -> StepsOfExpr(stmt.expr)
                       [] stmt.k = "Local" -> StepsOfExprs(stmt.init)
                       [] stmt.k = "Item" /\ stmt.item.k = "Fn" -> StepsOfStmts(stmt.item.body)
                       [] OTHER -> <<>>
         IN  here \o StepsOfStmts(Tail(stmts))

\* Bodies for the traversal: towers of one construct, one construct in another,
\* two constructs side by side.
NestingBodies(nest) ==
    {<<StmtExpr(Tower(w, n, Ident("x")))>> : w \in CxWrappers, n \in 0..nest}
    \cup {<<StmtExpr(CxWrap(w1, CxWrap(w2, Ident("x"))))>> : w1 \in CxWrappers, w2 \in CxWrappers}
    \cup {<<StmtExpr(CxWrap(w1, Ident("x"))), StmtLocal(<<>>, <<CxWrap(w2, Ident("x"))>>)>> :
            w1 \in CxWrappers, w2 \in CxWrappers}

\* The function whose body is traversed.
VisitedFn(src) == src.items[1].items[1]

\* analyze_fn: FnComplexityVisitor::new(), then visitor.visit_block(block).
BeginVisit ==
    /\ runs = <<>>
    /\ calls = <<>>
    /\ runs' = <<[todo |-> StepsOfStmts(VisitedFn(source).body),
                  visitor |-> FnComplexityVisitorNew]>>
    /\ UNCHANGED <<config, source, calls, pool, file>>

\* One of the six overrides is entered: self.enter().
EnterConstruct ==
    /\ runs # <<>>
    /\ runs[1].todo # <<>>
    /\ Head(runs[1].todo).at = "enter"
    /\ Head(runs[1].todo).kind \in DepthKinds
    /\ runs' = <<[todo |-> Tail(runs[1].todo), visitor |-> enter(runs[1].visitor)]>>
    /\ UNCHANGED <<config, source, calls, pool, file>>

\* One of the six overrides is done with the children: self.exit().
ExitConstruct ==
    /\ runs # <<>>
    /\ runs[1].todo # <<>>
    /\ Head(runs[1].todo).at = "exit"
    /\ Head(runs[1].todo).kind \in DepthKinds
    /\ runs' = <<[todo |-> Tail(runs[1].todo), visitor |-> exit(runs[1].visitor)]>>
    /\ UNCHANGED <<config, source, calls, pool, file>>

\* A block is entered or left: visit_block is not overridden.
PassBlock ==
    /\ runs # <<>>
    /\ runs[1].todo # <<>>
    /\ Head(runs[1].todo).kind = "Block"
    /\ runs' = <<[todo |-> Tail(runs[1].todo), visitor |-> runs[1].visitor]>>
    /\ UNCHANGED <<config, source, calls, pool, file>>

\* The traversal is over: max_nesting_depth: visitor.max_depth.
EndVisit ==
    /\ runs # <<>>
    /\ runs[1].todo = <<>>
    /\ calls' = Append(calls, [detector |-> "max_nesting_depth", fault |-> FALSE,
                               result |-> runs[1].visitor.max_depth])
    /\ runs' = <<>>
    /\ UNCHANGED <<config, source, pool, file>>

InitNesting ==
    /\ config = DefaultConfig
    /\ source \in {ParsedFile(<<ItemImpl(<<ImplItemFn("f", "pub", 0, body)>>)>>) :
                      body \in NestingBodies(MaxNest)}
    /\ calls = <<>>
    /\ runs = <<>>
    /\ pool = <<>>
    /\ file = <<>>

NextNesting == BeginVisit \/ EnterConstruct \/ ExitConstruct \/ PassBlock \/ EndVisit

SpecNesting == InitNesting /\ [][NextNesting]_vars

Largest(S) == IF S = {} THEN 0 ELSE CHOOSE x \in S : \A y \in S : y <= x

RECURSIVE OpenAtOnce(_)
\* The largest number of if, match, for, while, loop and closure expressions that
\* are open at the same time at or below an expression.
OpenAtOnce(e) ==
    (IF e.k \in DepthKinds THEN 1 ELSE 0) + Largest({OpenAtOnce(c) : c \in Range(CxKids(e))})

OpenAtOnceInBody(stmts) == Largest({OpenAtOnce(e) : e \in Range(CxStmtNodes(stmts))})

\* C29: at every step of the traversal of a function body, entering an if,
\* match, for, while, loop or closure raises the depth counter by one, leaving it
\* lowers the counter by one, a block changes nothing, 0 <= current_depth <=
\* max_depth and max_depth does not decrease; when the traversal ends the counter
\* is 0, and max_nesting_depth is the largest number of these constructs open at
\* the same time, the value analyze_fn reports.
C29_NestingDepthSteps ==
    [][ /\ runs' # <<>> =>
              /\ 0 <= runs'[1].visitor.current_depth
              /\ runs'[1].visitor.current_depth <= runs'[1].visitor.max_depth
        /\ (runs # <<>> /\ runs' # <<>>) =>
              LET step == Head(runs[1].todo)
                  v == runs[1].visitor
                  w == runs'[1].visitor
              IN  /\ w.max_depth >= v.max_depth
                  /\ (step.at = "enter" /\ step.kind \in DepthKinds)
                        => w.current_depth = v.current_depth + 1
                  /\ (step.at = "exit" /\ step.kind \in DepthKinds)
                        => w.current_depth = v.current_depth - 1
                  /\ step.kind = "Block" => w = v
        /\ (runs # <<>> /\ runs' = <<>>) =>
              LET f == VisitedFn(source)
              IN  /\ runs[1].visitor.current_depth = 0
                  /\ calls'[1].result = OpenAtOnceInBody(f.body)
                  /\ calls'[1].result =
                        analyze_fn(f.name, f.inputs, f.body, quote_to_string(f)).max_nesting_depth
      ]_vars

\* The traversal of a closure inside a while body has ended: two constructs
\* were open at once, and the counter is back at 0.
C29_Witness ==
    /\ runs = <<>>
    /\ calls # <<>>
    /\ calls[1].result = 2
    /\ VisitedFn(source).body = <<StmtExpr(CxWrap("WhileBody", CxWrap("Closure", Ident("x"))))>>


(***************************************************************************)
(* Generated sources for the collection of storage keys.                   *)
(***************************************************************************)
\* How many items a generated file holds.
MaxKeyItems == 2

SymbolNew(path, args) == Call(Path(path), args)

\* Expressions that are, or look like, the construction of a key.
KeyExprs ==
    { SymbolNew(<<"Symbol", "new">>, <<Reference(Ident("env")), LitStr("a")>>),
      SymbolNew(<<"Symbol", "new">>, <<Reference(Ident("env")), Ident("name")>>),
      SymbolNew(<<"soroban_sdk", "Symbol", "new">>, <<Reference(Ident("env")), LitStr("a")>>),
      SymbolNew(<<"Symbol", "short">>, <<Reference(Ident("env")), LitStr("a")>>),
      ExprMacro(<<"symbol_short">>, <<TokStr("a")>>),
      ExprMacro(<<"symbol_short">>, <<TokIdent("name")>>),
      ExprMacro(<<"vec">>, <<TokStr("a")>>) }

KeyItems ==
    { ItemConst("KEY", LitStr("a"), 1),
      ItemConst("LIMIT", LitInt(7), 1),
      ItemConst("DERIVED", ExprMacro(<<"symbol_short">>, <<TokStr("a")>>), 1),
      ItemFn("g", "pub", 0, <<StmtMacro(<<"symbol_short">>, <<TokStr("a")>>)>>) }
    \cup {ItemFn("f", "pub", 0, <<StmtLocal(<<>>, <<e>>)>>) : e \in KeyExprs}
    \cup {ItemImpl(<<ImplItemFn("h", "pub", 0,
              <<StmtExpr(If(Ident("c"), <<StmtExpr(MethodCall(Ident("s"), "get", <<e>>))>>, <<>>))>>)>>) :
            e \in KeyExprs}

InitKeys ==
    /\ config = DefaultConfig
    /\ source \in {ParsedFile(items) : items \in SeqsUpTo(KeyItems, MaxKeyItems)}
    /\ calls = <<>>
    /\ runs = <<>>
    /\ pool = <<>>
    /\ file = <<>>

NextKeys == ScanStorageCollisions

SpecKeys == InitKeys /\ [][NextKeys]_vars

\* Whether an expression is one of the two inline constructions of a key: a call
\* of the two-segment path Symbol::new with a string literal as second argument,
\* a symbol_short invocation whose only token is a string literal.
IsKeyCall(e) ==
    /\ e.k = "Call"
    /\ e.func = Path(<<"Symbol", "new">>)
    /\ Len(e.args) >= 2
    /\ e.args[2].k = "Lit"
    /\ e.args[2].lit = "Str"

IsKeyMacro(e) ==
    /\ e.k = "Macro"
    /\ e.path # <<>>
    /\ e.path[Len(e.path)] = "symbol_short"
    /\ Len(e.tokens) = 1
    /\ e.tokens[1].t = "Str"

\* The key an expression constructs, if it is a construction: value and kind.
KeysAt(e) ==
    IF IsKeyCall(e) THEN <<[value |-> <<e.args[2].value>>, key_type |-> "Symbol::new"]>>
    ELSE IF IsKeyMacro(e) THEN <<[value |-> <<e.tokens[1].text>>, key_type |-> "symbol_short!"]>>
    ELSE <<>>

\* The macro invocations that stand as statements, wherever they are in a body.
StmtMacrosOf(stmts) ==
    SelectSeq(stmts, LAMBDA s : s.k = "Macro")
    \o Flatten([i \in 1..Len(BodyNodes(stmts)) |->
            LET e == BodyNodes(stmts)[i]
            IN  CASE e.k \in {"ForLoop", "While", "Loop"} ->
                       SelectSeq(e.body, LAMBDA s : s.k = "Macro")
                  [] e.k = "Block" -> SelectSeq(e.stmts, LAMBDA s : s.k = "Macro")
                  [] e.k = "If" -> SelectSeq(e.then_branch, LAMBDA s : s.k = "Macro")
                  [] OTHER -> <<>>])

\* The keys that the contract has the pass collect from one item.
StatedKeysOfItem(item) ==
    LET inside(nodes) == Flatten([i \in 1..Len(nodes) |-> KeysAt(nodes[i])])
    IN  CASE item.k = "Const" ->
               IF item.expr.k = "Lit" /\ item.expr.lit = "Str"
               THEN <<[value |-> <<item.expr.value>>, key_type |-> "const"]>>
               ELSE inside(CxNodes(item.expr))
          [] item.k \in {"Fn", "ImplFn"} ->
               inside(BodyNodes(item.body) \o StmtMacrosOf(item.body))
          [] OTHER -> <<>>

StatedKeys(src) ==
    Flatten([i \in 1..Len(src.items) |->
        IF src.items[i].k = "Impl"
        THEN Flatten([j \in 1..Len(src.items[i].items) |->
                 StatedKeysOfItem(src.items[i].items[j])])
        ELSE StatedKeysOfItem(src.items[i])])

\* C30: the pass collects an occurrence for, and only for, (a) a top-level
\* constant initialised to a string literal, (b) a call of the two-segment path
\* Symbol::new whose second argument is a string literal, (c) a symbol_short
\* invocation whose single token is a string literal; each of them once, with the
\* literal's value and its kind; a constant with another initialiser, a
\* Symbol::new of something else and a symbol_short of something else add no key.
C30_KeysCollected ==
    \A issues \in ResultsOf("scan_storage_collisions") :
        LET stated == StatedKeys(source)
        IN  /\ DOMAIN CollectedKeys = {stated[i].value : i \in 1..Len(stated)}
            /\ \A value \in DOMAIN CollectedKeys :
                  \A key_type \in {"const", "Symbol::new", "symbol_short!"} :
                      Cardinality({i \in 1..Len(CollectedKeys[value]) :
                                      CollectedKeys[value][i].key_type = key_type})
                        = Cardinality({i \in 1..Len(stated) :
                                          /\ stated[i].value = value
                                          /\ stated[i].key_type = key_type})

====
